---------------------------- MODULE Spec2Model ----------------------------
(***************************************************************************)
(* A model of the request client built by createCall: the retry decision   *)
(* helpers of src/src/core/helper.ts and the attempt loop of request()     *)
(* (src/src/core/url.ts, lines 110-567).                                   *)
(*                                                                         *)
(* JavaScript values of mixed type are modelled by records of one shape:   *)
(* a retry decision is a Dec record, an optional number an Opt record, an  *)
(* absent map entry the decision Undef or the handler NoHandler.           *)
(***************************************************************************)
EXTENDS Integers, Sequences, FiniteSets, TLC

(***************************************************************************)
(* Bounds of the model.                                                    *)
(***************************************************************************)
\* the largest `attempts` value of a modelled retry decision
MaxAttempts == 2
\* the clock saturates here; every modelled time budget is below it
MaxTime == 3
\* the longest modelled duration of one transport invocation
MaxLatency == 1
\* the chunks of a body, the bytes of a chunk, and the declared length
MaxChunks == 2
MaxChunkSize == 2
MaxLength == 3

(***************************************************************************)
(* Program constants (url.ts, "Default values").                           *)
(***************************************************************************)
DEFAULT_BACKOFF_BASE == 250
DEFAULT_MAX_DELAY == 30000
DEFAULT_METHOD == "GET"
DEFAULT_RESPECT_RETRY_AFTER_HEADER == TRUE
DEFAULT_RETRY_METHODS == {"GET", "OPTIONS", "HEAD"}

Min(a, b) == IF a < b THEN a ELSE b
Max(a, b) == IF a > b THEN a ELSE b

(***************************************************************************)
(* Optional numbers: undefined, or a number.                               *)
(***************************************************************************)
None == [def |-> FALSE, v |-> 0]
Some(n) == [def |-> TRUE, v |-> n]

(***************************************************************************)
(* RetryDecision (types.ts 308-313), as request() may receive it at run    *)
(* time: undefined, a boolean, an object with a numeric `attempts` and an  *)
(* optional delay (a number, or a function of the attempt), an object      *)
(* without `attempts` (kind "other"), or an object whose `attempts` is      *)
(* Infinity (kind "inf").                                                  *)
(***************************************************************************)
Undef == [kind |-> "undef", b |-> FALSE, attempts |-> 0, dkind |-> "none", dval |-> 0]
DBool(b) == [kind |-> "bool", b |-> b, attempts |-> 0, dkind |-> "none", dval |-> 0]
DAttempts(n) == [kind |-> "obj", b |-> FALSE, attempts |-> n, dkind |-> "none", dval |-> 0]
DDelay(n, d) == [kind |-> "obj", b |-> FALSE, attempts |-> n, dkind |-> "num", dval |-> d]
DDelayFn(n, d) == [kind |-> "obj", b |-> FALSE, attempts |-> n, dkind |-> "fn", dval |-> d]
DOther == [kind |-> "other", b |-> FALSE, attempts |-> 0, dkind |-> "none", dval |-> 0]
DForever == [kind |-> "inf", b |-> FALSE, attempts |-> 0, dkind |-> "none", dval |-> 0]

\* a delay function supplied by the caller: attempt |-> d * attempt - 1
\* (negative, hence rejected, at attempt 0)
DelayFn(d, attempt) == d * attempt - 1

(***************************************************************************)
(* Status codes, their property keys, names and wildcards.                 *)
(***************************************************************************)
\* 520 has no entry in StatusCodeByName
Codes == {200, 404, 500, 520}

\* the property key of a numeric status: String(status)
NumKey(status) ==
    CASE status = 200 -> "200"
      [] status = 404 -> "404"
      [] status = 500 -> "500"
      [] status = 520 -> "520"
      [] OTHER -> "0"

StatusCodeByName ==
    [ok |-> 200, notFound |-> 404, internalServerError |-> 500]

\* helper.ts 98-104: the inverse of StatusCodeByName; "undefined" when absent
codeToName(status) ==
    IF \E k \in DOMAIN StatusCodeByName : StatusCodeByName[k] = status
    THEN CHOOSE k \in DOMAIN StatusCodeByName : StatusCodeByName[k] = status
    ELSE "undefined"

\* helper.ts 30-31
statusToWildcard(status) ==
    LET h == status \div 100
    IN CASE h = 1 -> "1xx"
         [] h = 2 -> "2xx"
         [] h = 3 -> "3xx"
         [] h = 4 -> "4xx"
         [] h = 5 -> "5xx"
         [] OTHER -> "0xx"

WildKeys == {"2xx", "4xx", "5xx"}
StatusKeys == {NumKey(s) : s \in Codes} \cup DOMAIN StatusCodeByName \cup WildKeys
SpecialKeys == {"network-error", "parsing-error"}

\* Response.ok
IsOk(status) == status >= 200 /\ status <= 299

(***************************************************************************)
(* Handler maps (OnStatus, types.ts 297-299): a function from keys to a    *)
(* handler or NoHandler, and the flag `once`.                              *)
(***************************************************************************)
NoHandler == [map |-> "none", key |-> "none"]
Handler(m, k) == [map |-> m, key |-> k]

\* a map with the keys of ks populated by handlers tagged m
HandlerMap(m, ks) ==
    [k \in StatusKeys \cup SpecialKeys |-> IF k \in ks THEN Handler(m, k) ELSE NoHandler]

\* obj[key] of a handler map
HGet(map, key) == IF key \in DOMAIN map THEN map[key] ELSE NoHandler

\* helper.ts 19-23
pickSpecial(key, local, global) ==
    IF HGet(local, key) # NoHandler THEN HGet(local, key) ELSE HGet(global, key)

\* a variant that asks the global map for the code and the name first
pickStatusHandler_GlobalFirst(status, local, global) ==
    LET name == codeToName(status)
        specific(map) ==
            IF HGet(map, NumKey(status)) # NoHandler THEN HGet(map, NumKey(status))
            ELSE IF name # "undefined" THEN HGet(map, name) ELSE NoHandler
        wildcard == statusToWildcard(status)
    IN IF specific(global) # NoHandler THEN specific(global)
       ELSE IF specific(local) # NoHandler THEN specific(local)
       ELSE IF HGet(local, wildcard) # NoHandler THEN HGet(local, wildcard)
       ELSE HGet(global, wildcard)

\* helper.ts 48-71
pickStatusHandler(status, local, global) ==
    LET name == codeToName(status)
        h1 == IF HGet(local, NumKey(status)) # NoHandler
              THEN HGet(local, NumKey(status))
              ELSE IF name # "undefined" THEN HGet(local, name) ELSE NoHandler
        h2 == IF HGet(global, NumKey(status)) # NoHandler
              THEN HGet(global, NumKey(status))
              ELSE IF name # "undefined" THEN HGet(global, name) ELSE NoHandler
        wildcard == statusToWildcard(status)
        h3 == HGet(local, wildcard)
        h4 == HGet(global, wildcard)
    IN IF h1 # NoHandler THEN h1
       ELSE IF h2 # NoHandler THEN h2
       ELSE IF h3 # NoHandler THEN h3
       ELSE IF h4 # NoHandler THEN h4
       ELSE NoHandler

(***************************************************************************)
(* Retry decisions.                                                        *)
(***************************************************************************)
\* a selector-keyed decision map (RetryConfig.onStatus); NoMap when absent
NoMap == [k \in {} |-> Undef]
DGet(map, key) == IF key \in DOMAIN map THEN map[key] ELSE Undef

\* a variant that reads the wildcard entry only
decisionFromStatus_WildcardOnly(status, onStatus) ==
    DGet(onStatus, statusToWildcard(status))

\* a variant that reads the wildcard entry first
decisionFromStatus_WildcardFirst(status, onStatus) ==
    LET name == codeToName(status)
    IN IF DGet(onStatus, statusToWildcard(status)) # Undef
       THEN DGet(onStatus, statusToWildcard(status))
       ELSE IF DGet(onStatus, NumKey(status)) # Undef THEN DGet(onStatus, NumKey(status))
       ELSE IF name # "undefined" THEN DGet(onStatus, name)
       ELSE Undef

\* helper.ts 112-125
decisionFromStatus(status, onStatus) ==
    LET decisionNumber == DGet(onStatus, NumKey(status))
        name == codeToName(status)
        decisionName == DGet(onStatus, name)
        wildcard == statusToWildcard(status)
    IN IF decisionNumber # Undef THEN decisionNumber
       ELSE IF name # "undefined" /\ decisionName # Undef THEN decisionName
       ELSE DGet(onStatus, wildcard)

NoRetry == [allow |-> FALSE, hasDelay |-> FALSE, delay |-> 0]
Retry == [allow |-> TRUE, hasDelay |-> FALSE, delay |-> 0]
RetryAfter(d) == [allow |-> TRUE, hasDelay |-> TRUE, delay |-> d]

\* a variant that compares the attempt with <=
allowAndDelayFromDecision_OffByOne(decision, attempt) ==
    IF decision.kind = "bool"
    THEN [allow |-> decision.b /\ attempt <= 1, hasDelay |-> FALSE, delay |-> 0]
    ELSE IF decision.kind = "obj" /\ attempt <= Max(0, decision.attempts)
    THEN Retry
    ELSE NoRetry

\* a variant in which `true` allows a retry at every attempt
allowAndDelayFromDecision_TrueAlways(decision, attempt) ==
    IF decision.kind = "bool"
    THEN [allow |-> decision.b, hasDelay |-> FALSE, delay |-> 0]
    ELSE IF decision.kind = "obj" /\ attempt < Max(0, decision.attempts)
    THEN Retry
    ELSE NoRetry

\* a variant that compares the attempt with `attempts` as it is given
allowAndDelayFromDecision_NoInt32(decision, attempt) ==
    IF decision.kind = "bool"
    THEN [allow |-> decision.b /\ attempt < 1, hasDelay |-> FALSE, delay |-> 0]
    ELSE IF decision.kind = "inf" THEN Retry
    ELSE IF decision.kind = "obj" /\ attempt < Max(0, decision.attempts)
    THEN IF decision.dkind = "num" THEN RetryAfter(decision.dval)
         ELSE IF decision.dkind = "fn" /\ DelayFn(decision.dval, attempt) >= 0
              THEN RetryAfter(DelayFn(decision.dval, attempt))
              ELSE Retry
    ELSE NoRetry

\* helper.ts 138: decision.attempts | 0, which is 0 for undefined and for
\* Infinity
ToInt32(decision) == IF decision.kind = "obj" THEN decision.attempts ELSE 0

\* helper.ts 132-149
allowAndDelayFromDecision(decision, attempt) ==
    IF decision.kind = "bool"
    THEN [allow |-> decision.b /\ attempt < 1, hasDelay |-> FALSE, delay |-> 0]
    ELSE IF decision.kind \in {"obj", "other", "inf"}
    THEN LET max == Max(0, ToInt32(decision))
         IN IF attempt < max
            THEN IF decision.dkind = "num" THEN RetryAfter(decision.dval)
                 ELSE IF decision.dkind = "fn" /\ DelayFn(decision.dval, attempt) >= 0
                      THEN RetryAfter(DelayFn(decision.dval, attempt))
                      ELSE Retry
            ELSE NoRetry
    ELSE NoRetry

(***************************************************************************)
(* Responses, as far as the loop reads them: the status and the            *)
(* retry-after header: absent (or empty), the digits of a number of        *)
(* seconds, digits too many for a finite number ("huge"), an HTTP date     *)
(* (the time it names, in milliseconds), or text that is neither ("bad").  *)
(***************************************************************************)
NoRetryAfter == [kind |-> "none", secs |-> 0, date |-> 0]
RetryAfterSecs(n) == [kind |-> "secs", secs |-> n, date |-> 0]
RetryAfterHuge == [kind |-> "huge", secs |-> 0, date |-> 0]
RetryAfterDate(t) == [kind |-> "date", secs |-> 0, date |-> t]
RetryAfterBad == [kind |-> "bad", secs |-> 0, date |-> 0]

\* the content type is "" (no header), "text/plain", "application/json" or
\* "application/json; charset=utf-8"; the body is valid
\* JSON text ("valid"), text that is not JSON ("invalid"), or empty ("empty")
NoResponse ==
    [present |-> FALSE, status |-> 0, retryAfter |-> NoRetryAfter,
     contentType |-> "", body |-> "empty"]
Response(status, ra) ==
    [present |-> TRUE, status |-> status, retryAfter |-> ra,
     contentType |-> "text/plain", body |-> "valid"]

(***************************************************************************)
(* Result fields (types.ts 29-39) and their selection.                     *)
(***************************************************************************)
returnFields ==
    {"content", "status", "statusText", "headers", "url", "ok", "redirected",
     "method", "error"}

\* an optional list of fields
NoFields == [def |-> FALSE, v |-> {}]
Fields(fs) == [def |-> TRUE, v |-> fs]

\* a variant that reads the configured list only
filterFields_ConfigOnly(obj, optsReturnFields, configReturnFields) ==
    IF ~configReturnFields.def THEN obj ELSE obj \cap configReturnFields.v

\* helper.ts 81-93: the fields of obj that are returned
filterFields(obj, optsReturnFields, configReturnFields) ==
    LET fieldsToReturn ==
            IF optsReturnFields.def /\ optsReturnFields.v # {}
            THEN optsReturnFields
            ELSE configReturnFields
    IN IF ~fieldsToReturn.def THEN obj ELSE obj \cap fieldsToReturn.v

(***************************************************************************)
(* Parsing, as far as the loop sees it: what is returned, or "throws".     *)
(***************************************************************************)
\* JSON.parse of a body
JSONparse(body) == IF body = "valid" THEN "object" ELSE "throws"

\* helper.ts 200-221
fallbackParse(body, parseAs) ==
    CASE parseAs = "json" -> IF body # "empty" THEN JSONparse(body) ELSE "undefined"
      [] parseAs = "text" -> "text"
      [] parseAs = "blob" -> "blob"
      [] parseAs = "arrayBuffer" -> "buffer"
      [] parseAs = "formData" -> "formData"
      [] parseAs = "response" -> "response"
      [] parseAs = "stream" -> "stream"
      [] OTHER -> "text"

\* helper.ts 231-333, when every chunk is read: the chunks are put
\* together as a buffer or a blob, or decoded to a text that is parsed when
\* JSON is asked for
parseWithReader(body, parseAs) ==
    CASE parseAs = "arrayBuffer" -> "buffer"
      [] parseAs = "blob" -> "blob"
      [] parseAs = "json" -> IF body # "empty" THEN JSONparse(body) ELSE "undefined"
      [] OTHER -> "text"

\* a variant that never parses as JSON unless asked to
ParseAsOf_ExplicitOnly(explicitParse, contentType) ==
    IF explicitParse # "undefined" THEN explicitParse ELSE "text"

\* String.prototype.includes('application/json') on the modelled content
\* types
IncludesJson(contentType) ==
    contentType \in {"application/json", "application/json; charset=utf-8"}

\* a variant in which the declared content type overrides the request
ParseAsOf_ContentTypeFirst(explicitParse, contentType) ==
    IF IncludesJson(contentType) THEN "json"
    ELSE IF explicitParse # "undefined" THEN explicitParse ELSE "text"

\* url.ts 383-389
ParseAsOf(explicitParse, contentType) ==
    LET defaultParse == IF IncludesJson(contentType) THEN "json" ELSE "text"
    IN IF explicitParse # "undefined" THEN explicitParse ELSE defaultParse

\* url.ts 317, 392: !!opts.onProgress || !!opts.useProgressApi
WantsProgress(onProgress, useProgressApi) == onProgress \/ useProgressApi

\* a variant that reads the body in chunks whatever the target
UsesReader_AnyTarget(wantsProgress, parseAs) == wantsProgress

\* url.ts 400: whether the body is read by parseWithReader
UsesReader(wantsProgress, parseAs) ==
    wantsProgress /\ parseAs # "response" /\ parseAs # "stream"

\* url.ts 399-402
Parse(res, explicitParse, wantsProgress) ==
    LET parseAs == ParseAsOf(explicitParse, res.contentType)
    IN IF UsesReader(wantsProgress, parseAs)
       THEN parseWithReader(res.body, parseAs)
       ELSE fallbackParse(res.body, parseAs)

\* 2^n
RECURSIVE Pow2(_)
Pow2(n) == IF n <= 0 THEN 1 ELSE 2 * Pow2(n - 1)

\* helper.ts 186: the milliseconds a retry-after value stands for, at the
\* time dateNow; None when the number is not finite (Infinity, or NaN)
RetryAfterMs(ra, dateNow) ==
    CASE ra.kind = "secs" -> Some(ra.secs * 1000)
      [] ra.kind = "date" -> Some(Max(0, ra.date - dateNow))
      [] OTHER -> None

\* helper.ts 190: Math.floor(Math.random() * span), for any draw of
\* Math.random from [0, 1)
Jitter(span) == IF span > 0 THEN 0..(span - 1) ELSE span..0

\* a variant that reads the retry-after header before the explicit delay
computeDelay_RetryAfterFirst(attempt, maxDelay, respectRetryAfterHeader, backoffBase, response, delay, dateNow) ==
    LET ms == RetryAfterMs(response.retryAfter, dateNow)
    IN IF respectRetryAfterHeader /\ response.present
          /\ response.retryAfter.kind # "none" /\ ms.def
       THEN {Min(maxDelay, ms.v)}
       ELSE IF delay.def
       THEN {Max(0, Min(maxDelay, delay.v))}
       ELSE {Min(maxDelay, v) : v \in Jitter(backoffBase * Pow2(attempt))}

\* helper.ts 167-192: the set of values computeDelay may return (the
\* backoff branch draws Math.random); dateNow is Date.now()
computeDelay(attempt, maxDelay, respectRetryAfterHeader, backoffBase, response, delay, dateNow) ==
    IF delay.def
    THEN {Max(0, Min(maxDelay, delay.v))}
    ELSE LET ms == RetryAfterMs(response.retryAfter, dateNow)
         IN IF respectRetryAfterHeader /\ response.present
               /\ response.retryAfter.kind # "none" /\ ms.def
            THEN {Min(maxDelay, ms.v)}
            ELSE {Min(maxDelay, v) : v \in Jitter(backoffBase * Pow2(attempt))}

(***************************************************************************)
(* Headers.  A header list given by the caller (Record<string, string>) is *)
(* a function from names as written to values; a Headers object is a       *)
(* function from lower-case names to values.                               *)
(***************************************************************************)
NoHeaders == [n \in {} |-> ""]

\* the lower-case form of the modelled header names
toLowerCase(name) ==
    CASE name = "Authorization" -> "authorization"
      [] name = "X-Id" -> "x-id"
      [] OTHER -> name

\* new Headers(init), init naming no header twice
NewHeaders(init) ==
    [n \in {toLowerCase(k) : k \in DOMAIN init} |->
        init[CHOOSE k \in DOMAIN init : toLowerCase(k) = n]]

\* Headers.prototype.has and set
HeadersHas(headers, name) == toLowerCase(name) \in DOMAIN headers
HeadersSet(headers, name, value) ==
    [n \in DOMAIN headers \cup {toLowerCase(name)} |->
        IF n = toLowerCase(name) THEN value ELSE headers[n]]

\* url.ts 123-126: the configured headers, each header of the request set
\* over them
MergedHeaders(configHeaders, optsHeaders) ==
    LET set == NewHeaders(optsHeaders)
        base == NewHeaders(configHeaders)
    IN [n \in DOMAIN base \cup DOMAIN set |-> IF n \in DOMAIN set THEN set[n] ELSE base[n]]

(***************************************************************************)
(* Tokens (types.ts 276): absent, a string, or a function that returns a   *)
(* string, returns undefined, or throws (or rejects).                      *)
(***************************************************************************)
NoToken == [kind |-> "undefined", how |-> "none", v |-> ""]
TokenString(v) == [kind |-> "string", how |-> "none", v |-> v]
TokenFn(how, v) == [kind |-> "function", how |-> how, v |-> v]

\* an optional string
NoString == [threw |-> FALSE, def |-> FALSE, v |-> ""]
String(v) == [threw |-> FALSE, def |-> TRUE, v |-> v]
\* a call that threw instead of returning one
Threw == [threw |-> TRUE, def |-> FALSE, v |-> ""]

\* url.ts 140, 142: typeof token === 'function' ? await token() : token
Yield(token) ==
    CASE token.kind = "string" -> String(token.v)
      [] token.kind = "function" /\ token.how = "returns" -> String(token.v)
      [] token.kind = "function" /\ token.how = "throws" -> Threw
      [] OTHER -> NoString

\* a variant that asks the cached token first
resolveToken_CachedFirst(callToken, cached, configToken) ==
    IF cached.def THEN cached
    ELSE IF callToken.kind # "undefined" THEN Yield(callToken)
    ELSE IF configToken.kind # "undefined" THEN Yield(configToken)
    ELSE NoString

\* url.ts 138-144
resolveToken(callToken, cached, configToken) ==
    IF callToken.kind # "undefined" THEN Yield(callToken)
    ELSE IF cached.def THEN cached
    ELSE IF configToken.kind # "undefined" THEN Yield(configToken)
    ELSE NoString

\* `Bearer ${t}`
Bearer(t) == "Bearer " \o t

\* url.ts 123-155: the headers of the request
RequestHeaders(o, cfg, cached) ==
    LET headers == MergedHeaders(cfg.headers, o.headers)
        t == resolveToken(o.token, cached, cfg.token)
    IN IF HeadersHas(headers, "authorization") THEN headers
       ELSE IF ~t.threw /\ t.def /\ t.v # ""
       THEN HeadersSet(headers, "authorization", Bearer(t.v))
       ELSE headers

\* url.ts 102
InitialToken(cfg) == IF cfg.token.kind = "string" THEN String(cfg.token.v) ELSE NoString

\* the caller has not used call.token.  written is what the caller wrote
\* last (the string of the last set, nothing after a clear; at first the
\* token the client was created with); got is what the last get returned,
\* and wanted what the caller had written last at the time
NoGet == [called |-> FALSE, value |-> NoString, wanted |-> NoString]
NoTokenApi(cfg) == [written |-> InitialToken(cfg), got |-> NoGet]

(***************************************************************************)
(* The state.                                                              *)
(*   config     the CallConfig given to createCall                         *)
(*   opts       the RequestOptions of each call                            *)
(*   transport  what the fetch implementation may do                       *)
(*   calls      each call of request(): its position and local variables,  *)
(*              and the history of what it did                             *)
(*   now        Date.now()                                                 *)
(*   probe      the arguments and the result of one application of a       *)
(*              helper, for the properties of the helpers alone            *)
(*   reader     one run of parseWithReader: its arguments, its position,   *)
(*              and the hooks and notifications it has called              *)
(*   internalToken  the token the client holds (url.ts 102)                *)
(*   tokenApi   what the caller did last with call.token, and what its     *)
(*              get returned                                               *)
(***************************************************************************)
VARIABLES config, opts, transport, calls, now, probe, reader, internalToken, tokenApi

vars == <<config, opts, transport, calls, now, probe, reader, internalToken, tokenApi>>

\* what no step of a call changes
client == <<config, opts, transport, probe, reader, internalToken, tokenApi>>

Calls == {1, 2}

\* the clock saturates at MaxTime
Later(t, dt) == Min(MaxTime, t + dt)

Tri == {"undef", "true", "false"}

(***************************************************************************)
(* Configuration shapes.                                                   *)
(***************************************************************************)
\* RetryConfig (types.ts 327-336)
RetryConfig(onStatus, onNetworkError, onParsingError, maxOverallTime, methods) ==
    [onStatus |-> onStatus,
     onNetworkError |-> onNetworkError,
     onParsingError |-> onParsingError,
     maxDelay |-> Some(2),
     backoffBase |-> Some(1),
     respectRetryAfterHeader |-> "undef",
     maxOverallTime |-> maxOverallTime,
     methods |-> methods]

NoMethods == [def |-> FALSE, v |-> {}]
Methods(ms) == [def |-> TRUE, v |-> ms]

\* RetryCall (types.ts 346-351): absent, a bare decision, or a wrapper
NoRetryCall ==
    [form |-> "undef", decision |-> Undef, sel |-> NoMap,
     respectRetryAfterHeader |-> "undef", maxDelay |-> None, maxOverallTime |-> None]
BareRetry(d) == [NoRetryCall EXCEPT !.form = "bare", !.decision = d]
WrappedRetry(d, budget) ==
    [NoRetryCall EXCEPT !.form = "wrapper", !.decision = d, !.maxOverallTime = budget]
\* a selector-keyed object passed as the per-request retry option
SelectorRetry(m) == [NoRetryCall EXCEPT !.form = "bare", !.decision = DOther, !.sel = m]

\* OnStatus (types.ts 297-299)
\* throws: whether the handlers of the map throw when they are invoked
On(handlers, once) == [handlers |-> handlers, once |-> once, throws |-> FALSE]
NoOn == On(HandlerMap("none", {}), "undef")

\* what a call returns or throws: how it ends, the fields present (of the
\* result, or of the CallError), ok, status, the message and the cause, and
\* whether what is thrown is a CallError
NoResult ==
    [how |-> "none", ok |-> FALSE, status |-> None, message |-> "",
     fields |-> {}, typed |-> FALSE, cause |-> "none"]

\* a call that has not been made
Idle ==
    [pc |-> "off", method |-> "", suppress |-> FALSE, effectiveOnce |-> FALSE,
     startedAt |-> 0, callDecision |-> Undef, backoffBase |-> 0, maxDelay |-> 0,
     respectRetryAfterHeader |-> FALSE, maxOverallTime |-> None,
     methodAllowed |-> FALSE, canReplayBody |-> FALSE,
     attempt |-> 0, withinBudget |-> FALSE, res |-> NoResponse,
     outcome |-> "none", decision |-> Undef, delay |-> None,
     willRetryNext |-> FALSE, handler |-> NoHandler, wake |-> 0,
     id |-> 0, timeout |-> None, signal |-> "none", deadline |-> None,
     cause |-> "none", parseAs |-> "",
     baseHeaders |-> NoHeaders, baseBody |-> "none", headers |-> NoHeaders,
     result |-> NoResult,
     \* history: the cached token when request() was called, what each
     \* transport invocation was given, and how often the transport changed
     \* the headers it was given
     tokenAt |-> NoString, sent |-> <<>>, mutations |-> 0,
     \* history: the transport invocations made, the time at the top of each
     \* attempt, and each attempt's outcome as it was classified
     fetches |-> 0, topAt |-> <<>>, outcomes |-> <<>>]

(***************************************************************************)
(* request(), url.ts 110-274: everything before the loop.                  *)
(***************************************************************************)
\* a variant that reads the second operand first
TriOr_SecondFirst(a, b, default) ==
    IF b # "undef" THEN b = "true" ELSE IF a # "undef" THEN a = "true" ELSE default

\* a Tri read with ?? : the first defined of a, b, else the default
TriOr(a, b, default) ==
    IF a # "undef" THEN a = "true" ELSE IF b # "undef" THEN b = "true" ELSE default

\* url.ts 231-233
callRetryHasWrapper(callRetry) == callRetry.form = "wrapper"
callDecisionOf(callRetry) == callRetry.decision

\* String.prototype.toUpperCase on the modelled method names
toUpperCase(m) ==
    CASE m = "get" -> "GET"
      [] m = "post" -> "POST"
      [] OTHER -> m

\* a variant that reads the configured timeout first
EffectiveTimeout_ConfigFirst(o, cfg) == IF cfg.timeout.def THEN cfg.timeout ELSE o.timeout

\* url.ts 182
EffectiveTimeout(o, cfg) == IF o.timeout.def THEN o.timeout ELSE cfg.timeout

\* url.ts 186, 282
HasTimeout(timeout) == timeout.def /\ timeout.v > 0

\* url.ts 118
MethodOf(o) == IF o.method # "undefined" THEN o.method ELSE DEFAULT_METHOD

\* url.ts 263
RetryMethods(configRetry) ==
    IF configRetry.methods.def THEN configRetry.methods.v ELSE DEFAULT_RETRY_METHODS

\* url.ts 265
MethodAllowed(method, retryMethods) == toUpperCase(method) \in retryMethods

Request(c) ==
    /\ calls[c].pc = "init"
    /\ LET o == opts[c]
           configRetry == config.retry
           callRetry == o.retry
           method == MethodOf(o)
           retryMethods == RetryMethods(configRetry)
       IN calls' = [calls EXCEPT ![c] =
              [@ EXCEPT
                 !.pc = "top",
                 !.id = c,
                 !.timeout = EffectiveTimeout(o, config),
                 !.signal = o.signal,
                 !.method = method,
                 !.suppress = TriOr(o.suppressError, config.suppressError, FALSE),
                 !.effectiveOnce = TriOr(o.on.once, config.on.once, FALSE),
                 !.startedAt = now,
                 !.callDecision = callDecisionOf(callRetry),
                 !.backoffBase =
                     IF configRetry.backoffBase.def THEN configRetry.backoffBase.v
                     ELSE DEFAULT_BACKOFF_BASE,
                 !.maxDelay =
                     IF callRetryHasWrapper(callRetry) /\ callRetry.maxDelay.def
                     THEN callRetry.maxDelay.v
                     ELSE IF configRetry.maxDelay.def THEN configRetry.maxDelay.v
                     ELSE DEFAULT_MAX_DELAY,
                 !.respectRetryAfterHeader =
                     IF callRetryHasWrapper(callRetry)
                        /\ callRetry.respectRetryAfterHeader # "undef"
                     THEN callRetry.respectRetryAfterHeader = "true"
                     ELSE TriOr(configRetry.respectRetryAfterHeader, "undef",
                                DEFAULT_RESPECT_RETRY_AFTER_HEADER),
                 !.maxOverallTime =
                     IF callRetryHasWrapper(callRetry) /\ callRetry.maxOverallTime.def
                     THEN callRetry.maxOverallTime
                     ELSE configRetry.maxOverallTime,
                 !.methodAllowed = MethodAllowed(method, retryMethods),
                 !.canReplayBody = o.body # "stream",
                 !.baseHeaders = RequestHeaders(o, config, internalToken),
                 !.baseBody = o.body,
                 !.tokenAt = internalToken,
                 !.attempt = 0]]
    /\ UNCHANGED <<client, now>>

(***************************************************************************)
(* The loop, url.ts 277-566.                                               *)
(***************************************************************************)
\* url.ts 279: !maxOverallTime || (Date.now() - startedAt) < maxOverallTime
WithinBudget(maxOverallTime, elapsed) ==
    (~maxOverallTime.def \/ maxOverallTime.v = 0) \/ elapsed < maxOverallTime.v

\* a variant that gives the transport the headers of the attempt before
AttemptHeaders_Reuse(cr) == IF cr.fetches = 0 THEN cr.baseHeaders ELSE cr.headers

\* url.ts 303: new Headers(baseHeaders)
AttemptHeaders(cr) == cr.baseHeaders

\* no modelled policy grants more retries than MaxAttempts, nor the two of
\* the README, so no call invokes the transport more often than this
MaxFetches == MaxAttempts + 2

\* url.ts 279-329: the top of an attempt, up to the fetch call
AttemptTop(c) ==
    /\ calls[c].pc = "top"
    /\ calls[c].fetches < MaxFetches
    /\ LET cr == calls[c]
       IN calls' = [calls EXCEPT ![c] =
              [@ EXCEPT
                 !.pc = "fetch",
                 !.withinBudget = WithinBudget(cr.maxOverallTime, now - cr.startedAt),
                 !.res = NoResponse,
                 !.deadline =
                     IF HasTimeout(cr.timeout)
                     THEN Some(Later(now, cr.timeout.v))
                     ELSE None,
                 !.headers = AttemptHeaders(cr),
                 !.sent = Append(@, [headers |-> AttemptHeaders(cr), body |-> cr.baseBody]),
                 !.fetches = @ + 1,
                 !.topAt = Append(@, now)]]
    /\ UNCHANGED <<client, now>>

\* the properties of the CallError thrown for an outcome (url.ts 373-377,
\* 452-457, 556-562)
ErrorFields(outcome) ==
    CASE outcome = "NetworkFailure" -> {"url", "method", "cause"}
      [] outcome = "ParseFailure" -> {"url", "method", "response", "cause"}
      [] OTHER -> {"status", "url", "method", "data", "response"}

\* what a throwing mapResponse makes of the call (url.ts 480, 539: nothing
\* catches it)
MapResponseThrows ==
    [NoResult EXCEPT !.how = "throw", !.message = "mapResponse", !.cause = "mapResponse"]

\* the failure result or error of url.ts 359-377, 437-457, 531-562, and the
\* success result of 481-490
FinalResult(cr) ==
    LET message ==
            CASE cr.outcome = "NetworkFailure" -> "Network/Abort error"
              [] cr.outcome = "ParseFailure" -> "Response parse error"
              [] cr.outcome = "StatusFailure" -> "Request failed with status"
              [] OTHER -> ""
        o == opts[cr.id]
        cause ==
            CASE cr.outcome = "StatusFailure" -> IF cr.suppress THEN "code" ELSE "none"
              [] OTHER -> cr.cause
    IN IF cr.outcome = "Success"
       THEN IF o.mapResponse = "throws" THEN MapResponseThrows
            ELSE [how |-> "return", ok |-> TRUE, status |-> Some(cr.res.status),
                  message |-> "",
                  fields |-> filterFields(returnFields \ {"error"}, o.returnFields,
                                          config.returnFields),
                  typed |-> FALSE, cause |-> "none"]
       ELSE IF cr.suppress
       THEN IF cr.outcome = "StatusFailure" /\ o.mapResponse = "throws"
            THEN MapResponseThrows
            ELSE [how |-> "return", ok |-> FALSE,
                  status |-> Some(IF cr.res.present THEN cr.res.status ELSE 0),
                  message |-> message,
                  fields |-> filterFields(returnFields, o.returnFields,
                                          config.returnFields),
                  typed |-> FALSE, cause |-> cause]
       ELSE [how |-> "throw", ok |-> FALSE,
             status |-> IF cr.outcome = "StatusFailure" THEN Some(cr.res.status) ELSE None,
             message |-> message,
             fields |-> ErrorFields(cr.outcome),
             typed |-> TRUE, cause |-> cause]

\* a variant in which the call ends and the loop goes on
Proceed_NoReturn(cr, d, t) ==
    IF cr.willRetryNext
    THEN IF d > 0
         THEN [cr EXCEPT !.pc = "delay", !.wake = Later(t, d)]
         ELSE [cr EXCEPT !.pc = "top", !.attempt = @ + 1]
    ELSE [cr EXCEPT !.pc = "top", !.result = FinalResult(cr)]

\* a variant that retries at once, whatever the delay
Proceed_NoSleep(cr, d, t) ==
    IF cr.willRetryNext
    THEN [cr EXCEPT !.pc = "top", !.attempt = @ + 1]
    ELSE [cr EXCEPT !.pc = "done", !.result = FinalResult(cr)]

\* a variant in which a retry without delay does not count
Proceed_SkipIncrement(cr, d, t) ==
    IF cr.willRetryNext
    THEN IF d > 0
         THEN [cr EXCEPT !.pc = "delay", !.wake = Later(t, d)]
         ELSE [cr EXCEPT !.pc = "top"]
    ELSE [cr EXCEPT !.pc = "done", !.result = FinalResult(cr)]

\* what follows the handler of a classified attempt: the retry (delay d,
\* then attempt++) of url.ts 351-356, 422-434, 517-529, or the end of the call
Proceed(cr, d, t) ==
    IF cr.willRetryNext
    THEN IF d > 0
         THEN [cr EXCEPT !.pc = "delay", !.wake = Later(t, d)]
         ELSE [cr EXCEPT !.pc = "top", !.attempt = @ + 1]
    ELSE [cr EXCEPT !.pc = "done", !.result = FinalResult(cr)]

\* the delays computeDelay may return for the classified attempt
Delays(cr) ==
    IF cr.willRetryNext
    THEN computeDelay(cr.attempt, cr.maxDelay, cr.respectRetryAfterHeader,
                      cr.backoffBase, cr.res, cr.delay,
                      cr.outcomes[Len(cr.outcomes)].at)
    ELSE {0}

\* a variant that does not ask whether the body can be replayed
WillRetryNext_IgnoreBody(cr, allow) ==
    cr.methodAllowed /\ cr.withinBudget /\ allow

\* a variant that does not ask whether the method is eligible
WillRetryNext_IgnoreMethod(cr, allow) ==
    cr.canReplayBody /\ cr.withinBudget /\ allow

\* url.ts 340-342, 412-414, 498-500
WillRetryNext(cr, allow) ==
    LET within == cr.methodAllowed /\ cr.canReplayBody /\ cr.withinBudget
    IN within /\ allow

\* a variant that invokes the handler on every attempt
Fires_IgnoreOnce(h, outcome, effectiveOnce, willRetryNext) ==
    h # NoHandler

\* url.ts 347, 418, 503 (a failed attempt) and 465 (a success): whether the
\* resolved handler h is invoked
Fires(h, outcome, effectiveOnce, willRetryNext) ==
    /\ h # NoHandler
    /\ (outcome = "Success" \/ ~effectiveOnce \/ ~willRetryNext)

\* a variant in which the calls of a client count their attempts in one
\* counter
AttemptOf_Shared(cs, c) ==
    LET RECURSIVE Sum(_)
        Sum(S) == IF S = {} THEN 0
                  ELSE LET d == CHOOSE d \in S : TRUE IN cs[d].attempt + Sum(S \ {d})
    IN Sum(DOMAIN cs)

\* url.ts 274: attempt is a variable of the invocation of request()
AttemptOf(cs, c) == cs[c].attempt

\* an attempt's outcome is known: the decision is evaluated, the handler is
\* invoked if it is to fire (and then awaited), else the call goes on
Classified(c, outcome, res, decision, h, cause, t) ==
    LET cr == calls[c]
        ad == allowAndDelayFromDecision(decision, AttemptOf(calls, c))
        willRetryNext ==
            IF outcome = "Success" THEN FALSE ELSE WillRetryNext(cr, ad.allow)
        fires == Fires(h, outcome, cr.effectiveOnce, willRetryNext)
        next == [cr EXCEPT
                   !.outcome = outcome,
                   !.res = res,
                   !.cause = cause,
                   !.decision = decision,
                   !.delay = IF ad.hasDelay THEN Some(ad.delay) ELSE None,
                   !.willRetryNext = willRetryNext,
                   !.handler = IF fires THEN h ELSE NoHandler,
                   !.outcomes = Append(@,
                       [kind |-> outcome, status |-> res.status, attempt |-> cr.attempt,
                        decision |-> decision, withinBudget |-> cr.withinBudget,
                        willRetryNext |-> willRetryNext,
                        resolved |-> h, fired |-> fires,
                        cause |-> cause, at |-> t, threw |-> FALSE])]
    IN IF fires
       THEN calls' = [calls EXCEPT ![c] = [next EXCEPT !.pc = "handler"]]
       ELSE \E d \in Delays(next) : calls' = [calls EXCEPT ![c] = Proceed(next, d, t)]

\* a variant that reads the configuration first
Coalesce_GlobalFirst(a, b) == IF b # Undef THEN b ELSE a

\* a ?? b on decisions
Coalesce(a, b) == IF a # Undef THEN a ELSE b

\* a variant that asks the status of the response first
ParseDecision_StatusFirst(callDecision, res, configRetry) ==
    IF res.present /\ ~IsOk(res.status)
    THEN Coalesce(callDecision, decisionFromStatus(res.status, configRetry.onStatus))
    ELSE Coalesce(callDecision, configRetry.onParsingError)

\* url.ts 408: the decision for a response whose body could not be parsed
ParseDecision(callDecision, res, configRetry) ==
    Coalesce(callDecision, configRetry.onParsingError)

\* url.ts 494: the decision for a non-success status
StatusDecision(callDecision, status, onStatus) ==
    Coalesce(callDecision, decisionFromStatus(status, onStatus))

\* the caller's signal has fired
Aborted(cr) == cr.signal = "aborted"

\* the transport may answer after dt without the timer of the attempt
\* firing first
BeforeTimeout(cr, dt) == HasTimeout(cr.timeout) => dt <= cr.timeout.v

\* url.ts 330-378: fetch rejects
FetchRejects(c) ==
    /\ calls[c].pc = "fetch"
    /\ transport.rejects
    /\ ~Aborted(calls[c])
    /\ \E dt \in transport.latencies :
          /\ BeforeTimeout(calls[c], dt)
          /\ now' = Later(now, dt)
          /\ Classified(c, "NetworkFailure", NoResponse,
                        Coalesce(calls[c].callDecision, config.retry.onNetworkError),
                        pickSpecial("network-error", opts[c].on.handlers, config.on.handlers),
                        "error", now')
    /\ UNCHANGED client

\* url.ts 288-300, 330-378: the caller's signal has fired (it is the signal
\* of the fetch, or aborts the controller that is), and fetch rejects with
\* the abort error
FetchAborts(c) ==
    /\ calls[c].pc = "fetch"
    /\ Aborted(calls[c])
    /\ Classified(c, "NetworkFailure", NoResponse,
                  Coalesce(calls[c].callDecision, config.retry.onNetworkError),
                  pickSpecial("network-error", opts[c].on.handlers, config.on.handlers),
                  "signal", now)
    /\ UNCHANGED <<client, now>>

\* url.ts 296, 330-378: the timer of the attempt fires while fetch is
\* pending, the controller aborts, and fetch rejects with the abort error
FetchTimesOut(c) ==
    /\ calls[c].pc = "fetch"
    /\ ~Aborted(calls[c])
    /\ calls[c].deadline.def
    /\ transport.hangs \/ \E dt \in transport.latencies : dt >= calls[c].timeout.v
    /\ now' = Max(now, calls[c].deadline.v)
    /\ Classified(c, "NetworkFailure", NoResponse,
                  Coalesce(calls[c].callDecision, config.retry.onNetworkError),
                  pickSpecial("network-error", opts[c].on.handlers, config.on.handlers),
                  "timeout", now')
    /\ UNCHANGED client

\* url.ts 323-329, 380-402: fetch resolves and the body is being read
FetchResolves(c) ==
    /\ calls[c].pc = "fetch"
    /\ ~Aborted(calls[c])
    /\ \E dt \in transport.latencies, s \in transport.statuses, ra \in transport.retryAfter,
          ct \in transport.contentTypes, body \in transport.bodies :
          /\ BeforeTimeout(calls[c], dt)
          /\ now' = Later(now, dt)
          /\ calls' = [calls EXCEPT ![c] =
                [@ EXCEPT !.pc = "parse",
                          !.parseAs = ParseAsOf(opts[c].parseAs, ct),
                          !.res = [Response(s, ra) EXCEPT !.contentType = ct,
                                                          !.body = body]]]
    /\ UNCHANGED client

\* url.ts 404-458: parsing throws (the read fails, or the text is not JSON)
ParseFails(c) ==
    /\ calls[c].pc = "parse"
    /\ ~Aborted(calls[c])
    /\ \/ transport.badBody
       \/ Parse(calls[c].res, opts[c].parseAs, opts[c].wantsProgress) = "throws"
    /\ Classified(c, "ParseFailure", calls[c].res,
                  ParseDecision(calls[c].callDecision, calls[c].res, config.retry),
                  pickSpecial("parsing-error", opts[c].on.handlers, config.on.handlers),
                  "parse", now)
    /\ UNCHANGED <<client, now>>

\* url.ts 398-458: the caller's signal fires while the body is read; the
\* read rejects with the abort error inside the try of the parsing
ReadAborts(c) ==
    /\ calls[c].pc = "parse"
    /\ Aborted(calls[c])
    /\ Classified(c, "ParseFailure", calls[c].res,
                  ParseDecision(calls[c].callDecision, calls[c].res, config.retry),
                  pickSpecial("parsing-error", opts[c].on.handlers, config.on.handlers),
                  "signal", now)
    /\ UNCHANGED <<client, now>>

\* url.ts 296, 398-458: the timer of the attempt (cleared only when the
\* attempt ends) fires while the body is read; the read rejects likewise
ReadTimesOut(c) ==
    /\ calls[c].pc = "parse"
    /\ ~Aborted(calls[c])
    /\ calls[c].deadline.def
    /\ transport.slowBody
    /\ now' = Max(now, calls[c].deadline.v)
    /\ Classified(c, "ParseFailure", calls[c].res,
                  ParseDecision(calls[c].callDecision, calls[c].res, config.retry),
                  pickSpecial("parsing-error", opts[c].on.handlers, config.on.handlers),
                  "timeout", now')
    /\ UNCHANGED client

\* url.ts 460-529: the body is parsed; the status decides
ParseSucceeds(c) ==
    /\ calls[c].pc = "parse"
    /\ ~Aborted(calls[c])
    /\ Parse(calls[c].res, opts[c].parseAs, opts[c].wantsProgress) # "throws"
    /\ LET res == calls[c].res
           handler == pickStatusHandler(res.status, opts[c].on.handlers, config.on.handlers)
       IN IF IsOk(res.status)
          THEN Classified(c, "Success", res, Undef, handler, "none", now)
          ELSE Classified(c, "StatusFailure", res,
                          StatusDecision(calls[c].callDecision, res.status,
                                         config.retry.onStatus),
                          handler, "none", now)
    /\ UNCHANGED <<client, now>>

\* whether the handler invoked throws (or rejects)
Throws(c, h) == IF h.map = "local" THEN opts[c].on.throws ELSE config.on.throws

\* a variant in which what the handler throws leaves request()
AfterHandler_Propagates(cr, threw, d, t) ==
    IF threw
    THEN [cr EXCEPT !.pc = "done",
                    !.result = [NoResult EXCEPT !.how = "throw", !.message = "handler",
                                                !.cause = "handler"]]
    ELSE Proceed(cr, d, t)

\* url.ts 345-348, 416-419, 464-477, 502-515: the handler is awaited
\* inside try/catch, so the call goes on the same whether it threw or not
AfterHandler(cr, threw, d, t) == Proceed(cr, d, t)

\* the awaited handler returns or throws
HandlerReturns(c) ==
    /\ calls[c].pc = "handler"
    /\ LET cr == calls[c]
           threw == Throws(c, cr.handler)
           noted == [cr EXCEPT !.outcomes[Len(cr.outcomes)].threw = threw]
       IN \E d \in Delays(cr) :
             calls' = [calls EXCEPT ![c] = AfterHandler(noted, threw, d, now)]
    /\ UNCHANGED <<client, now>>

\* url.ts 353-355, 431-433, 526-528: the sleep ends, attempt++, continue
DelayElapses(c) ==
    /\ calls[c].pc = "delay"
    /\ now' = Max(now, calls[c].wake)
    /\ calls' = [calls EXCEPT ![c] = [@ EXCEPT !.pc = "top", !.attempt = @ + 1]]
    /\ UNCHANGED client

\* the caller aborts the signal given to the call
Abort(c) ==
    /\ calls[c].pc \in {"top", "fetch", "parse", "handler", "delay"}
    /\ calls[c].signal = "armed"
    /\ calls' = [calls EXCEPT ![c] = [@ EXCEPT !.signal = "aborted"]]
    /\ UNCHANGED <<client, now>>

\* the fetch implementation changes the Headers object it was given
\* (url.ts 303, 325: the object of this attempt)
TransportMutates(c) ==
    /\ calls[c].pc = "fetch"
    /\ transport.mutatesHeaders
    /\ calls[c].mutations < calls[c].fetches
    /\ calls' = [calls EXCEPT ![c] =
           [@ EXCEPT !.headers = HeadersSet(@, "authorization", "Tampered"),
                     !.mutations = @ + 1]]
    /\ UNCHANGED <<client, now>>

\* the tokens the caller may set
Tokens == {"A", "B"}

\* a variant that holds the first token set
Written_First(cached, t) == IF cached.def THEN cached ELSE t

\* url.ts 578: internalToken = t
Written(cached, t) == t

\* url.ts 578: call.token.set(t), t a string or undefined
TokenSet ==
    /\ "set" \in transport.tokenApi
    /\ \E t \in {NoString} \cup {String(v) : v \in Tokens} :
          /\ internalToken' = Written(internalToken, t)
          /\ tokenApi' = [tokenApi EXCEPT !.written = t]
    /\ UNCHANGED <<config, opts, transport, calls, now, probe, reader>>

\* url.ts 580: call.token.clear()
TokenClear ==
    /\ "clear" \in transport.tokenApi
    /\ internalToken' = NoString
    /\ tokenApi' = [tokenApi EXCEPT !.written = NoString]
    /\ UNCHANGED <<config, opts, transport, calls, now, probe, reader>>

\* url.ts 579: call.token.get(); the caller notes what it returned
TokenGet ==
    /\ "get" \in transport.tokenApi
    /\ tokenApi' = [tokenApi EXCEPT
                       !.got = [called |-> TRUE, value |-> internalToken,
                                wanted |-> tokenApi.written]]
    /\ UNCHANGED <<config, opts, transport, calls, now, probe, reader, internalToken>>

Next ==
    \E c \in Calls :
        \/ Request(c)
        \/ AttemptTop(c)
        \/ FetchRejects(c)
        \/ FetchAborts(c)
        \/ FetchTimesOut(c)
        \/ FetchResolves(c)
        \/ ParseFails(c)
        \/ ReadAborts(c)
        \/ ReadTimesOut(c)
        \/ ParseSucceeds(c)
        \/ HandlerReturns(c)
        \/ DelayElapses(c)
        \/ Abort(c)

(***************************************************************************)
(* Initial states: a client configuration, the options of the call, and    *)
(* what the transport may do.  The families vary one concern each over     *)
(* every combination of its inputs.                                        *)
(***************************************************************************)
\* CallConfig (types.ts 369-383); timeout and returnFields are absent unless
\* a family sets them
CallConfig(retry, on, suppressError) ==
    [retry |-> retry, on |-> on, suppressError |-> suppressError,
     timeout |-> None, returnFields |-> NoFields,
     headers |-> NoHeaders, token |-> NoToken]

\* RequestOptions (types.ts 429-462); signal is "none" (no signal given),
\* "armed" (a signal not yet aborted) or "aborted"; mapResponse is "none",
\* "returns" or "throws"; wantsProgress is !!onProgress || !!useProgressApi
RequestOptions(method, body, retry, on, suppressError) ==
    [method |-> method, body |-> body, retry |-> retry, on |-> on,
     suppressError |-> suppressError,
     timeout |-> None, signal |-> "none", returnFields |-> NoFields,
     mapResponse |-> "none", parseAs |-> "undefined", wantsProgress |-> FALSE,
     headers |-> NoHeaders, token |-> NoToken]

DefaultOptions == RequestOptions("undefined", "none", NoRetryCall, NoOn, "undef")

\* what the transport may do: the latencies of fetch, the statuses, content
\* types and bodies it may answer, whether fetch may reject, whether reading
\* the body may fail, whether fetch may stay pending for ever (hangs),
\* whether reading the body may outlast any timer (slowBody), and whether
\* fetch changes the headers it is given (mutatesHeaders); and the
\* functions of call.token the caller uses while calls are under way
\* (tokenApi)
Transport(latencies, statuses, rejects, badBody, retryAfter) ==
    [latencies |-> latencies, statuses |-> statuses, rejects |-> rejects,
     badBody |-> badBody, retryAfter |-> retryAfter,
     contentTypes |-> {"text/plain"}, bodies |-> {"valid"},
     hangs |-> FALSE, slowBody |-> FALSE,
     mutatesHeaders |-> FALSE, tokenApi |-> {}]

\* the decisions a policy slot may hold
Decisions ==
    {Undef, DBool(TRUE), DBool(FALSE)} \cup {DAttempts(n) : n \in 0..MaxAttempts}

\* onStatus maps
OnStatus(ks, d) == [k \in ks |-> d]
OnStatusMaps ==
    {NoMap,
     OnStatus({"500"}, DAttempts(MaxAttempts)),
     OnStatus({"500"}, DAttempts(2)),
     OnStatus({"500"}, DBool(TRUE)),
     [k \in {"500", "5xx"} |-> IF k = "500" THEN DBool(FALSE) ELSE DAttempts(1)],
     OnStatus({"internalServerError"}, DAttempts(1))}

\* one call is made; the other is not
OneCall == [c \in Calls |-> IF c = 1 THEN [Idle EXCEPT !.pc = "init"] ELSE Idle]

\* method, replayability and decisions
InitGating ==
    \E method \in {"undefined", "GET", "get", "POST"},
       methods \in {NoMethods, Methods({"POST"})},
       body \in {"none", "stream"},
       callDecision \in Decisions,
       onStatus \in OnStatusMaps,
       onNetworkError \in {Undef, DAttempts(MaxAttempts)},
       onParsingError \in {Undef, DBool(TRUE)} :
        \* a method in lower case is matched against a configured list,
        \* the default method against the default list
        /\ method = "get" => methods # NoMethods
        /\ method = "undefined" => methods = NoMethods
        \* both decisions of the configuration, or neither
        /\ (onNetworkError = Undef) = (onParsingError = Undef)
        /\ config = CallConfig(
               RetryConfig(onStatus, onNetworkError, onParsingError, None, methods),
               NoOn, "undef")
        /\ opts = [c \in Calls |->
               RequestOptions(method, body,
                   IF callDecision = Undef THEN NoRetryCall ELSE BareRetry(callDecision),
                   NoOn, "undef")]
        /\ transport = Transport({0}, {200, 500}, TRUE, TRUE, {NoRetryAfter})

\* the time budget, latencies and delays
InitBudget ==
    \E budget \in {None} \cup {Some(b) : b \in 0..(MaxTime - 1)},
       callRetry \in {NoRetryCall, BareRetry(DAttempts(MaxAttempts)),
                      WrappedRetry(DAttempts(MaxAttempts), Some(1)),
                      WrappedRetry(DBool(TRUE), None)},
       onStatus \in {OnStatus({"5xx"}, DAttempts(MaxAttempts)),
                     OnStatus({"500"}, DDelay(MaxAttempts, 1)),
                     OnStatus({"500"}, DDelayFn(MaxAttempts, 2))} :
        /\ config = CallConfig(
               RetryConfig(onStatus, DBool(TRUE), Undef, budget, NoMethods),
               NoOn, "undef")
        /\ opts = [c \in Calls |->
               RequestOptions("GET", "none", callRetry, NoOn, "undef")]
        /\ transport = Transport(0..MaxLatency, {200, 500}, TRUE, FALSE, {NoRetryAfter})

\* handlers, the flag once, and error suppression
InitHandlers ==
    \E localKeys \in {{}, {"500"}, {"internalServerError"}, {"5xx"}, {"parsing-error"}},
       globalKeys \in {{}, {"500", "5xx", "network-error", "parsing-error"}, {"5xx", "200"}},
       localOnce \in Tri, globalOnce \in Tri,
       callRetry \in {NoRetryCall, BareRetry(DAttempts(1))},
       onStatus \in {OnStatus({"500"}, DBool(TRUE)), OnStatus({"5xx"}, DAttempts(MaxAttempts))},
       method \in {"GET", "POST"},
       localSuppress \in {"undef", "true"}, globalSuppress \in {"undef"} :
        /\ config = CallConfig(
               RetryConfig(onStatus, Undef, Undef, None, NoMethods),
               On(HandlerMap("global", globalKeys), globalOnce), globalSuppress)
        /\ opts = [c \in Calls |->
               RequestOptions(method, "none", callRetry,
                   On(HandlerMap("local", localKeys), localOnce), localSuppress)]
        /\ transport = Transport({0}, {200, 500}, TRUE, TRUE, {NoRetryAfter})

\* the default knobs, and the retry-after header
InitDefaults ==
    \E onStatus \in {OnStatus({"5xx"}, DAttempts(1)), OnStatus({"500"}, DDelay(1, 2)),
                     OnStatus({"500"}, DForever)},
       respect \in Tri :
        /\ config = CallConfig(
               [RetryConfig(onStatus, Undef, Undef, None, NoMethods) EXCEPT
                   !.maxDelay = None, !.backoffBase = None,
                   !.respectRetryAfterHeader = respect],
               NoOn, "undef")
        /\ opts = [c \in Calls |-> DefaultOptions]
        /\ transport = Transport({0}, {500}, FALSE, FALSE,
                                 {NoRetryAfter, RetryAfterSecs(1), RetryAfterBad})

(***************************************************************************)
(* parseWithReader (helper.ts 231-333), step by step.                      *)
(***************************************************************************)
\* progress values: null, or the fraction num/den in lowest meaning (1 is
\* 1/1)
Null == [null |-> TRUE, num |-> 0, den |-> 1]
One == [null |-> FALSE, num |-> 1, den |-> 1]
Fraction(n, d) == [null |-> FALSE, num |-> n, den |-> d]

\* the content-length header: absent, or the decimal text of n
NoLength == [kind |-> "absent", n |-> 0]
Length(n) == [kind |-> "number", n |-> n]

\* helper.ts 243-244: totalHeader ? Number(totalHeader) : undefined
TotalOf(totalHeader) ==
    IF totalHeader.kind = "number" THEN Some(totalHeader.n) ELSE None

\* a variant that takes a declared length of 0 for a known total
Percent_ZeroTotal(loaded, total) ==
    IF total.def
    THEN IF loaded >= total.v THEN One ELSE Fraction(loaded, total.v)
    ELSE Null

\* a variant that does not clamp
Percent_Unclamped(loaded, total) ==
    IF total.def /\ total.v # 0
    THEN IF loaded = total.v THEN One ELSE Fraction(loaded, total.v)
    ELSE Null

\* helper.ts 263, 292, 316: total ? Math.min(1, loaded / total) : null
Percent(loaded, total) ==
    IF total.def /\ total.v # 0
    THEN IF loaded >= total.v THEN One ELSE Fraction(loaded, total.v)
    ELSE Null

\* a variant that reports the size of the last chunk
Loaded_LastChunk(loaded, byteLength) == byteLength

\* helper.ts 262, 291, 315: loaded += value.byteLength
Loaded(loaded, byteLength) == loaded + byteLength

\* the sum of the sizes of a sequence of chunks (helper.ts 275)
RECURSIVE Size(_)
Size(chunks) == IF chunks = <<>> THEN 0 ELSE Head(chunks) + Size(Tail(chunks))

\* a run of parseWithReader that has not been made.  Arguments: hasBody
\* (res.body is not null), locked (the body stream is locked, so getReader
\* throws), contentLength, text (the body as JSON text: "valid" or
\* "invalid"), parseAs, useProgressApi, hooks (the functions progressAPI
\* has), onProgress (opts.onProgress is given).  History: starts, dones,
\* sets (the values given to progressAPI.set), notes (the notifications
\* given to opts.onProgress), chunks (the sizes received).
NoReader ==
    [pc |-> "off", hasBody |-> FALSE, locked |-> FALSE, contentLength |-> NoLength,
     text |-> "valid", parseAs |-> "text", useProgressApi |-> FALSE, hooks |-> {},
     onProgress |-> FALSE,
     total |-> None, loaded |-> 0, pending |-> "none", result |-> "none",
     size |-> 0, ended |-> FALSE,
     starts |-> 0, dones |-> 0, sets |-> <<>>, notes |-> <<>>, chunks |-> <<>>]

\* no helper is applied on its own
NoProbe ==
    [fn |-> "none", status |-> 0, callRetry |-> NoRetryCall, onStatus |-> NoMap,
     local |-> HandlerMap("none", {}), global |-> HandlerMap("none", {}),
     attempt |-> 0, maxDelay |-> 0, respectRetryAfterHeader |-> FALSE,
     backoffBase |-> 0, response |-> NoResponse, delay |-> None, dateNow |-> 0,
     done |-> FALSE, decision |-> Undef, handler |-> NoHandler, result |-> 0]

\* the configuration of the README's quick start: two retries on 500, and
\* a handler for internalServerError that fires on the final attempt only
InitReadme ==
    \E localSuppress \in Tri, globalSuppress \in Tri, method \in {"undefined", "POST"} :
        /\ config = CallConfig(
               RetryConfig(OnStatus({"500"}, DAttempts(2)), Undef, Undef, None,
                           Methods({"GET", "HEAD", "OPTIONS"})),
               On(HandlerMap("global", {"internalServerError"}), "true"), globalSuppress)
        /\ opts = [c \in Calls |->
               RequestOptions(method, "none", NoRetryCall, NoOn, localSuppress)]
        /\ transport = Transport({0}, {200, 500}, TRUE, TRUE, {NoRetryAfter})

\* handlers that throw
InitThrow ==
    \E localKeys \in {{}, {"500"}, {"200", "network-error"}},
       globalKeys \in {{}, {"200", "5xx", "network-error", "parsing-error"}},
       localThrows \in BOOLEAN, globalThrows \in BOOLEAN,
       once \in {"undef", "true"},
       decision \in {Undef, DBool(TRUE)},
       suppress \in {"undef", "true"} :
        /\ config = CallConfig(
               RetryConfig(OnStatus({"5xx"}, decision), decision, decision, None, NoMethods),
               [On(HandlerMap("global", globalKeys), once) EXCEPT !.throws = globalThrows],
               suppress)
        /\ opts = [c \in Calls |->
               RequestOptions("GET", "none", NoRetryCall,
                   [On(HandlerMap("local", localKeys), "undef") EXCEPT !.throws = localThrows],
                   "undef")]
        /\ transport = Transport({0}, {200, 500}, TRUE, TRUE, {NoRetryAfter})

\* the caller's signal, the timeout, and transports that stay pending
InitAbort ==
    \E signal \in {"none", "armed", "aborted"},
       localTimeout \in {None, Some(0), Some(1)},
       globalTimeout \in {None, Some(1), Some(2)},
       decision \in {Undef, DBool(TRUE)},
       body \in {"none", "stream"},
       hangs \in BOOLEAN, slowBody \in BOOLEAN,
       suppress \in {"undef", "true"} :
        /\ config = [CallConfig(
                         RetryConfig(NoMap, decision, decision, None, NoMethods),
                         On(HandlerMap("global", {"network-error", "parsing-error"}), "undef"),
                         suppress)
                     EXCEPT !.timeout = globalTimeout]
        /\ opts = [c \in Calls |->
               [RequestOptions("GET", body, NoRetryCall, NoOn, "undef")
                EXCEPT !.timeout = localTimeout, !.signal = signal]]
        /\ transport = [Transport(0..MaxLatency, {200}, FALSE, FALSE, {NoRetryAfter})
                        EXCEPT !.hangs = hangs, !.slowBody = slowBody]

\* content types, bodies and parse modes; the fields returned
InitParse ==
    \E parseAs \in {"undefined", "json", "text", "response"},
       wantsProgress \in BOOLEAN,
       localSuppress \in Tri, globalSuppress \in {"undef", "true"},
       localFields \in {NoFields, Fields({}), Fields({"content"})},
       globalFields \in {NoFields, Fields({"status", "ok", "error"})},
       mapResponse \in {"none", "returns", "throws"} :
        /\ config = [CallConfig(RetryConfig(NoMap, Undef, Undef, None, NoMethods),
                                NoOn, globalSuppress)
                     EXCEPT !.returnFields = globalFields]
        /\ opts = [c \in Calls |->
               [RequestOptions("GET", "none", NoRetryCall, NoOn, localSuppress)
                EXCEPT !.parseAs = parseAs, !.wantsProgress = wantsProgress,
                       !.returnFields = localFields, !.mapResponse = mapResponse]]
        /\ transport = [Transport({0}, {200, 404}, TRUE, FALSE, {NoRetryAfter})
                        EXCEPT !.contentTypes = {"", "text/plain", "application/json",
                                                 "application/json; charset=utf-8"},
                               !.bodies = {"valid", "invalid", "empty"}]

Init ==
    /\ \/ InitGating
       \/ InitBudget
       \/ InitHandlers
       \/ InitDefaults
       \/ InitReadme
       \/ InitThrow
       \/ InitAbort
       \/ InitParse
    /\ calls = OneCall
    /\ now = 0
    /\ probe = NoProbe
    /\ reader = NoReader
    /\ internalToken = InitialToken(config)
    /\ tokenApi = NoTokenApi(config)

Spec == Init /\ [][Next]_vars

\* every kind of decision, the same for statuses, network errors and
\* parsing errors, against a transport that may fail in every way on
\* every attempt
InitPolicies ==
    \E decision \in Decisions \cup {DForever, DOther, DDelay(MaxAttempts, 1),
                                     DDelayFn(MaxAttempts, 2)} :
        /\ config = CallConfig(
               RetryConfig(OnStatus({"5xx"}, decision), decision, decision, None,
                           NoMethods),
               NoOn, "undef")
        /\ opts = [c \in Calls |-> DefaultOptions]
        /\ transport = Transport({0}, {200, 500}, TRUE, TRUE, {NoRetryAfter})

\* the calls whose end is checked
InitLive ==
    /\ \/ InitPolicies
       \/ InitDefaults
       \/ InitReadme
       \/ InitThrow
       \/ InitAbort
    /\ calls = OneCall
    /\ now = 0
    /\ probe = NoProbe
    /\ reader = NoReader
    /\ internalToken = InitialToken(config)
    /\ tokenApi = NoTokenApi(config)

\* every await of request() settles: a step of the call that can be taken
\* is taken
SpecLive == InitLive /\ [][Next]_vars /\ WF_vars(Next)

(***************************************************************************)
(* The client with its token: calls made side by side, the caller setting, *)
(* clearing and reading the token at any time, and a transport that may    *)
(* change the headers it is given.                                         *)
(***************************************************************************)
\* both calls are made
TwoCalls == [c \in Calls |-> [Idle EXCEPT !.pc = "init"]]

\* two calls with options of their own on one client
InitPair ==
    \E once \in {"undef", "true"} :
        /\ config = [CallConfig(
                         RetryConfig(OnStatus({"500"}, DAttempts(1)), DBool(TRUE), Undef,
                                     None, NoMethods),
                         On(HandlerMap("global", {"5xx", "network-error"}), once), "undef")
                     EXCEPT !.token = TokenString("A")]
        /\ opts = [c \in Calls |->
               IF c = 1
               THEN RequestOptions("GET", "none", NoRetryCall, NoOn, "undef")
               ELSE RequestOptions("GET", "none", BareRetry(DAttempts(1)),
                                   On(HandlerMap("local", {"500"}), "undef"), "true")]
        /\ transport = [Transport({0}, {200, 500}, TRUE, FALSE, {NoRetryAfter})
                        EXCEPT !.tokenApi = {"set", "clear"}]
        /\ calls = TwoCalls

\* the headers and tokens of the client and of one call
InitCredentials ==
    \E configHeaders \in {NoHeaders, [n \in {"authorization"} |-> "Basic cfg"],
                           [n \in {"X-Id"} |-> "cfg"]},
       optsHeaders \in {NoHeaders, [n \in {"Authorization"} |-> "Basic call"],
                         [n \in {"X-Id"} |-> "call"]},
       configToken \in {NoToken, TokenString("A"), TokenFn("returns", "G"),
                         TokenFn("throws", "")},
       callToken \in {NoToken, TokenString("C"), TokenString(""), TokenFn("returns", "F"),
                       TokenFn("undefined", ""), TokenFn("throws", "")} :
        /\ config = [CallConfig(RetryConfig(NoMap, Undef, Undef, None, NoMethods),
                                NoOn, "undef")
                     EXCEPT !.headers = configHeaders, !.token = configToken]
        /\ opts = [c \in Calls |->
               [DefaultOptions EXCEPT !.headers = optsHeaders, !.token = callToken]]
        /\ transport = [Transport({0}, {200}, FALSE, FALSE, {NoRetryAfter})
                        EXCEPT !.tokenApi = {"set"}]
        /\ calls = OneCall

\* one call that is retried, with delays, a timeout and a signal, on a
\* transport that changes the headers it is given
InitReplay ==
    \E signal \in {"none", "armed"},
       timeout \in {None, Some(1)},
       body \in {"string"} :
        /\ config = [CallConfig(
                         RetryConfig(OnStatus({"500"}, DAttempts(1)),
                                     DDelay(1, 1), DBool(TRUE), None, NoMethods),
                         On(HandlerMap("global", {"network-error"}), "undef"), "undef")
                     EXCEPT !.token = TokenString("A"), !.timeout = timeout,
                            !.headers = [n \in {"X-Id"} |-> "cfg"]]
        /\ opts = [c \in Calls |->
               [RequestOptions("GET", body, NoRetryCall, NoOn, "undef")
                EXCEPT !.signal = signal]]
        /\ transport = [Transport({0}, {200, 500}, TRUE, TRUE, {NoRetryAfter})
                        EXCEPT !.hangs = TRUE, !.slowBody = TRUE,
                               !.mutatesHeaders = TRUE, !.tokenApi = {"set"}]
        /\ calls = OneCall

\* the caller sets, clears and reads the token while calls are under way
InitToken ==
    \E configToken \in {NoToken, TokenString("A"), TokenFn("returns", "G")} :
        /\ config = [CallConfig(RetryConfig(NoMap, Undef, Undef, None, NoMethods),
                                NoOn, "undef")
                     EXCEPT !.token = configToken]
        /\ opts = [c \in Calls |-> DefaultOptions]
        /\ transport = [Transport({0}, {200}, FALSE, FALSE, {NoRetryAfter})
                        EXCEPT !.tokenApi = {"set", "clear", "get"}]
        /\ calls = TwoCalls

InitClient ==
    /\ \/ InitPair
       \/ InitCredentials
       \/ InitReplay
       \/ InitToken
    /\ now = 0
    /\ probe = NoProbe
    /\ reader = NoReader
    /\ internalToken = InitialToken(config)
    /\ tokenApi = NoTokenApi(config)

NextClient ==
    \/ Next
    \/ \E c \in Calls : TransportMutates(c)
    \/ TokenSet
    \/ TokenClear
    \/ TokenGet

SpecClient == InitClient /\ [][NextClient]_vars

(***************************************************************************)
(* The helpers alone: the decision for a status (url.ts 494 with           *)
(* decisionFromStatus) and the handler for a status (pickStatusHandler),   *)
(* applied to every combination of populated entries, and computeDelay,    *)
(* applied to every combination of its arguments.                          *)
(***************************************************************************)
\* the keys a status can match, and one it cannot
KeysOf(status) ==
    {NumKey(status), statusToWildcard(status)}
        \cup (IF codeToName(status) # "undefined" THEN {codeToName(status)} ELSE {})
ForeignKey(status) == IF status = 404 THEN "5xx" ELSE "404"

ProbeDecisions == {Undef, DBool(TRUE), DBool(FALSE)}

\* the onStatus maps over the keys of a status and a foreign key
OnStatusOver(status) ==
    {[k \in StatusKeys |-> IF k \in DOMAIN m THEN m[k] ELSE Undef] :
        m \in [KeysOf(status) \cup {ForeignKey(status)} -> ProbeDecisions]}

ProbeRetryCalls ==
    {NoRetryCall, BareRetry(DBool(TRUE)), BareRetry(DBool(FALSE)),
     BareRetry(DAttempts(1)), WrappedRetry(DBool(TRUE), None),
     SelectorRetry(OnStatus({"500"}, DBool(TRUE))),
     SelectorRetry(OnStatus({"5xx"}, DBool(TRUE)))}

InitDecisionProbe ==
    \E status \in Codes \ {200}, callRetry \in ProbeRetryCalls :
        \E onStatus \in OnStatusOver(status) :
            probe = [NoProbe EXCEPT !.fn = "decision", !.status = status,
                                    !.callRetry = callRetry, !.onStatus = onStatus]

InitHandlerProbe ==
    \E status \in Codes :
        \E localKeys \in SUBSET (KeysOf(status) \cup {ForeignKey(status)}),
           globalKeys \in SUBSET (KeysOf(status) \cup {ForeignKey(status)}) :
            probe = [NoProbe EXCEPT !.fn = "handler", !.status = status,
                                    !.local = HandlerMap("local", localKeys),
                                    !.global = HandlerMap("global", globalKeys)]

\* the retry-after values of a response
ProbeRetryAfters ==
    {NoRetryAfter, RetryAfterBad, RetryAfterHuge}
        \cup {RetryAfterSecs(n) : n \in 0..MaxAttempts}
        \cup {RetryAfterDate(t) : t \in {0, 2, 2000}}

\* the arguments of computeDelay: a backoff base and an explicit delay may
\* be any number
InitDelayProbe ==
    \E attempt \in 0..MaxAttempts,
       maxDelay \in {0, 3, 1500, DEFAULT_MAX_DELAY},
       respectRetryAfterHeader \in BOOLEAN,
       backoffBase \in {-2, 0, 1, 2},
       response \in {NoResponse} \cup {Response(500, ra) : ra \in ProbeRetryAfters},
       delay \in {None, Some(-1), Some(0), Some(2), Some(40000)},
       dateNow \in {0, 1} :
        probe = [NoProbe EXCEPT !.fn = "delay", !.attempt = attempt,
                                !.maxDelay = maxDelay,
                                !.respectRetryAfterHeader = respectRetryAfterHeader,
                                !.backoffBase = backoffBase, !.response = response,
                                !.delay = delay, !.dateNow = dateNow]

InitHelpers ==
    /\ \/ InitDecisionProbe
       \/ InitHandlerProbe
       \/ InitDelayProbe
    /\ config = CallConfig(RetryConfig(NoMap, Undef, Undef, None, NoMethods), NoOn, "undef")
    /\ opts = [c \in Calls |-> DefaultOptions]
    /\ transport = Transport({0}, {200}, FALSE, FALSE, {NoRetryAfter})
    /\ calls = [c \in Calls |-> Idle]
    /\ now = 0
    /\ reader = NoReader
    /\ internalToken = InitialToken(config)
    /\ tokenApi = NoTokenApi(config)

\* url.ts 228-233, 494
Decide ==
    /\ probe.fn = "decision"
    /\ ~probe.done
    /\ probe' = [probe EXCEPT
                   !.done = TRUE,
                   !.decision = StatusDecision(callDecisionOf(probe.callRetry),
                                               probe.status, probe.onStatus)]
    /\ UNCHANGED <<config, opts, transport, calls, now, reader, internalToken, tokenApi>>

\* url.ts 461
Resolve ==
    /\ probe.fn = "handler"
    /\ ~probe.done
    /\ probe' = [probe EXCEPT
                   !.done = TRUE,
                   !.handler = pickStatusHandler(probe.status, probe.local, probe.global)]
    /\ UNCHANGED <<config, opts, transport, calls, now, reader, internalToken, tokenApi>>

\* helper.ts 167-192, with any draw of Math.random
Delay ==
    /\ probe.fn = "delay"
    /\ ~probe.done
    /\ \E d \in computeDelay(probe.attempt, probe.maxDelay, probe.respectRetryAfterHeader,
                              probe.backoffBase, probe.response, probe.delay,
                              probe.dateNow) :
          probe' = [probe EXCEPT !.done = TRUE, !.result = d]
    /\ UNCHANGED <<config, opts, transport, calls, now, reader, internalToken, tokenApi>>

NextHelpers == Decide \/ Resolve \/ Delay

SpecHelpers == InitHelpers /\ [][NextHelpers]_vars

(***************************************************************************)
(* The parsing of one response (url.ts 392-403) and parseWithReader alone: *)
(* one run over every combination of the arguments, the stream delivering  *)
(* any chunks, ending, or failing.                                         *)
(***************************************************************************)
\* the ways progress is asked for: opts.onProgress given or not, and
\* opts.useProgressApi set or not, with a config.progress that has no hook,
\* all three, or lacks done
ProgressSetups ==
    {[useProgressApi |-> FALSE, hooks |-> hs, onProgress |-> op] :
        hs \in {{}, {"start", "set", "done"}}, op \in BOOLEAN}
        \cup {[useProgressApi |-> TRUE, hooks |-> hs, onProgress |-> op] :
                 hs \in {{}, {"start", "set", "done"}, {"start", "set"}},
                 op \in BOOLEAN}

InitReader ==
    /\ \E hasBody \in BOOLEAN, locked \in BOOLEAN,
          contentLength \in {NoLength} \cup {Length(n) : n \in 0..MaxLength},
          text \in {"valid", "invalid"},
          parseAs \in {"arrayBuffer", "blob", "formData", "text", "json", "response",
                       "stream"},
          setup \in ProgressSetups :
          /\ locked => hasBody
          /\ text = "invalid" => parseAs = "json"
          /\ reader = [NoReader EXCEPT
                          !.pc = "parse", !.hasBody = hasBody, !.locked = locked,
                          !.contentLength = contentLength, !.text = text,
                          !.parseAs = parseAs,
                          !.useProgressApi = setup.useProgressApi,
                          !.hooks = setup.hooks, !.onProgress = setup.onProgress]
    /\ config = CallConfig(RetryConfig(NoMap, Undef, Undef, None, NoMethods), NoOn, "undef")
    /\ opts = [c \in Calls |-> DefaultOptions]
    /\ transport = Transport({0}, {200}, FALSE, FALSE, {NoRetryAfter})
    /\ calls = [c \in Calls |-> Idle]
    /\ now = 0
    /\ probe = NoProbe
    /\ internalToken = InitialToken(config)
    /\ tokenApi = NoTokenApi(config)

\* url.ts 392-403: the body is read by parseWithReader, or parsed at once
\* by fallbackParse
ReaderDispatch ==
    /\ reader.pc = "parse"
    /\ LET wantsProgress == WantsProgress(reader.onProgress, reader.useProgressApi)
           out == fallbackParse(IF reader.hasBody THEN reader.text ELSE "empty",
                                reader.parseAs)
       IN reader' = IF UsesReader(wantsProgress, reader.parseAs)
                    THEN [reader EXCEPT !.pc = "call"]
                    ELSE [reader EXCEPT
                             !.pc = IF out = "throws" THEN "threw" ELSE "returned",
                             !.result = out]
    /\ UNCHANGED <<config, opts, transport, calls, now, probe, internalToken, tokenApi>>

\* helper.ts 238-241: without a body stream the response is parsed at once
ReaderFallsBack ==
    /\ reader.pc = "call"
    /\ ~reader.hasBody
    /\ LET out == fallbackParse("empty", reader.parseAs)
       IN reader' = [reader EXCEPT !.pc = IF out = "throws" THEN "threw" ELSE "returned",
                                   !.result = out]
    /\ UNCHANGED <<config, opts, transport, calls, now, probe, internalToken, tokenApi>>

\* helper.ts 243-249: total; the start hook, and the indeterminate signal
\* when there is no total
ReaderStarts ==
    /\ reader.pc = "call"
    /\ reader.hasBody
    /\ LET total == TotalOf(reader.contentLength)
           indeterminate == ~total.def \/ total.v = 0
       IN reader' = [reader EXCEPT
              !.pc = "started",
              !.total = total,
              !.starts = IF reader.useProgressApi /\ "start" \in reader.hooks
                         THEN @ + 1 ELSE @,
              !.sets = IF reader.useProgressApi /\ indeterminate /\ "set" \in reader.hooks
                       THEN Append(@, Null) ELSE @]
    /\ UNCHANGED <<config, opts, transport, calls, now, probe, internalToken, tokenApi>>

\* helper.ts 251-254: getReader, outside the try: on a locked stream it
\* throws and parseWithReader is left at once
ReaderAcquired ==
    /\ reader.pc = "started"
    /\ reader' = IF reader.locked
                 THEN [reader EXCEPT !.pc = "threw", !.result = "throws"]
                 ELSE [reader EXCEPT !.pc = "reading", !.loaded = 0]
    /\ UNCHANGED <<config, opts, transport, calls, now, probe, internalToken, tokenApi>>

\* helper.ts 258-266, 287-295, 311-319: a chunk is read
ReaderReadsChunk ==
    /\ reader.pc = "reading"
    /\ Len(reader.chunks) < MaxChunks
    /\ \E byteLength \in 0..MaxChunkSize :
          LET loaded == Loaded(reader.loaded, byteLength)
              percent == Percent(loaded, reader.total)
          IN reader' = [reader EXCEPT
                 !.chunks = Append(@, byteLength),
                 !.loaded = loaded,
                 !.notes = IF reader.onProgress
                           THEN Append(@, [loaded |-> loaded, total |-> reader.total,
                                           percent |-> percent])
                           ELSE @,
                 !.sets = IF reader.useProgressApi /\ "set" \in reader.hooks
                          THEN Append(@, percent) ELSE @]
    /\ UNCHANGED <<config, opts, transport, calls, now, probe, internalToken, tokenApi>>

\* helper.ts 259, 275-283, 305, 321-327: the stream ends; the chunks are
\* assembled, and the text parsed when JSON is asked for
ReaderFinishes ==
    /\ reader.pc = "reading"
    /\ LET out == parseWithReader(IF Size(reader.chunks) = 0 THEN "empty"
                                  ELSE reader.text,
                                  reader.parseAs)
       IN reader' = [reader EXCEPT !.pc = "finally", !.pending = out,
                                   !.size = Size(reader.chunks), !.ended = TRUE]
    /\ UNCHANGED <<config, opts, transport, calls, now, probe, internalToken, tokenApi>>

\* helper.ts 258, 287, 311: reader.read() rejects (the stream errors, or is
\* aborted)
ReaderFails ==
    /\ reader.pc = "reading"
    /\ reader' = [reader EXCEPT !.pc = "finally", !.pending = "throws"]
    /\ UNCHANGED <<config, opts, transport, calls, now, probe, internalToken, tokenApi>>

\* helper.ts 328-332: finally, the done hook
ReaderFinally ==
    /\ reader.pc = "finally"
    /\ reader' = [reader EXCEPT
           !.pc = IF reader.pending = "throws" THEN "threw" ELSE "returned",
           !.result = reader.pending,
           !.dones = IF reader.useProgressApi /\ "done" \in reader.hooks
                     THEN @ + 1 ELSE @]
    /\ UNCHANGED <<config, opts, transport, calls, now, probe, internalToken, tokenApi>>

NextReader ==
    \/ ReaderDispatch
    \/ ReaderFallsBack
    \/ ReaderStarts
    \/ ReaderAcquired
    \/ ReaderReadsChunk
    \/ ReaderFinishes
    \/ ReaderFails
    \/ ReaderFinally

SpecReader == InitReader /\ [][NextReader]_vars

(***************************************************************************)
(* Properties.                                                             *)
(***************************************************************************)
\* the call has entered request()
Started(cr) == cr.pc \notin {"off", "init"}

\* the attempts of a call that failed, by their place in the history
FailedAttempts(cr) == {i \in DOMAIN cr.outcomes : cr.outcomes[i].kind # "Success"}

\* the retry decisions the call has consulted
Consulted(cr) == {cr.outcomes[i].decision : i \in FailedAttempts(cr)}

\* every attempt so far got a response with this status and a body that parsed
AlwaysAnswered(cr, status) ==
    \A i \in DOMAIN cr.outcomes :
        /\ cr.outcomes[i].kind = "StatusFailure"
        /\ cr.outcomes[i].status = status

\* C1: if every retry decision a call has consulted is {attempts: N}, the
\* call has made at most N+1 transport invocations, and every retry was
\* granted at an attempt counter of at most N-1.
C1_AttemptsBound ==
    \A c \in Calls : \A n \in 0..MaxAttempts :
        LET cr == calls[c]
        IN (\A d \in Consulted(cr) : d.kind = "obj" /\ d.attempts = n)
           => /\ cr.fetches <= n + 1
              /\ \A i \in DOMAIN cr.outcomes :
                    cr.outcomes[i].willRetryNext => cr.outcomes[i].attempt <= n - 1

\* a call that consulted only {attempts: MaxAttempts}, used every retry and
\* ended
C1_Witness ==
    \E c \in Calls :
        /\ calls[c].pc = "done"
        /\ Consulted(calls[c]) = {DAttempts(MaxAttempts)}
        /\ calls[c].fetches = MaxAttempts + 1
        /\ calls[c].outcomes[MaxAttempts].willRetryNext

\* the scenario of C2: the global policy {500: {attempts: 2}} and no
\* per-request decision, a GET that may be retried, no time budget
ScenarioA(c) ==
    /\ config.retry.onStatus = OnStatus({"500"}, DAttempts(2))
    /\ opts[c].retry = NoRetryCall
    /\ toUpperCase(MethodOf(opts[c])) = "GET"
    /\ "GET" \in RetryMethods(config.retry)
    /\ opts[c].body # "stream"
    /\ ~config.retry.maxOverallTime.def

\* C2: in scenario A with a server that always answers 500, the call makes
\* no more than 3 transport invocations, and when it ends it has made
\* exactly 3 and fails with status 500: returned with ok false under
\* suppression, thrown otherwise.
C2_ScenarioA ==
    \A c \in Calls :
        LET cr == calls[c]
        IN (Started(cr) /\ ScenarioA(c) /\ AlwaysAnswered(cr, 500))
           => /\ cr.fetches <= 3
              /\ cr.pc = "done" =>
                    /\ cr.fetches = 3
                    /\ cr.result.ok = FALSE
                    /\ cr.result.status = Some(500)
                    /\ cr.result.how = IF cr.suppress THEN "return" ELSE "throw"

\* scenario A has ended, with suppression on
C2_Witness ==
    \E c \in Calls :
        /\ calls[c].pc = "done"
        /\ ScenarioA(c)
        /\ AlwaysAnswered(calls[c], 500)
        /\ calls[c].suppress
        /\ calls[c].fetches = 3

\* the gate of a retry as it stood when attempt i was classified
GateAt(cr, i) == cr.methodAllowed /\ cr.canReplayBody /\ cr.outcomes[i].withinBudget

\* C3: on every failure channel and at every attempt, a decision of true
\* grants a retry exactly when the gate is open and the attempt is 0, which
\* is what {attempts: 1} grants; false and an absent decision grant none.
C3_TrueIsOneAttempt ==
    \A c \in Calls :
        LET cr == calls[c]
        IN \A i \in FailedAttempts(cr) :
              LET e == cr.outcomes[i]
              IN /\ e.decision = DBool(TRUE) =>
                        /\ e.willRetryNext = (GateAt(cr, i) /\ e.attempt = 0)
                        /\ e.willRetryNext =
                              (GateAt(cr, i)
                               /\ allowAndDelayFromDecision(DAttempts(1), e.attempt).allow)
                 /\ e.decision \in {DBool(FALSE), Undef} => ~e.willRetryNext

\* a call that was granted its retry by `true` at attempt 0 and was refused
\* one by `true` at attempt 1, the gate being open
C3_Witness ==
    \E c \in Calls :
        /\ Len(calls[c].outcomes) >= 2
        /\ calls[c].outcomes[1].decision = DBool(TRUE)
        /\ calls[c].outcomes[1].willRetryNext
        /\ calls[c].outcomes[2].decision = DBool(TRUE)
        /\ calls[c].outcomes[2].kind # "Success"
        /\ GateAt(calls[c], 2)
        /\ ~calls[c].outcomes[2].willRetryNext

\* C4: a call whose body is a one-shot stream is granted no retry and makes
\* one transport invocation, whatever the outcome and the decision.
C4_StreamBodyNeverRetries ==
    \A c \in Calls :
        LET cr == calls[c]
        IN (Started(cr) /\ opts[c].body = "stream")
           => /\ cr.fetches <= 1
              /\ \A i \in DOMAIN cr.outcomes : ~cr.outcomes[i].willRetryNext
              /\ cr.pc = "done" => cr.fetches = 1

\* a call with a stream body has failed and ended under a decision that
\* allows two retries
C4_Witness ==
    \E c \in Calls :
        /\ calls[c].pc = "done"
        /\ opts[c].body = "stream"
        /\ calls[c].methodAllowed
        /\ calls[c].outcome # "Success"
        /\ calls[c].decision = DAttempts(MaxAttempts)

\* C5: a call whose method is not among the eligible methods (the
\* configured ones, else GET, OPTIONS, HEAD) is granted no retry, under any
\* decision; when it fails it ends after one transport invocation with the
\* failure of its outcome, returned under suppression and thrown otherwise.
C5_MethodNotEligible ==
    \A c \in Calls :
        LET cr == calls[c]
        IN (Started(cr) /\ toUpperCase(MethodOf(opts[c])) \notin RetryMethods(config.retry))
           => /\ cr.fetches <= 1
              /\ \A i \in DOMAIN cr.outcomes : ~cr.outcomes[i].willRetryNext
              /\ (cr.pc = "done" /\ cr.outcome # "Success") =>
                    /\ cr.fetches = 1
                    /\ cr.result.ok = FALSE
                    /\ cr.result.how = IF cr.suppress THEN "return" ELSE "throw"
                    /\ cr.result.message =
                          CASE cr.outcome = "NetworkFailure" -> "Network/Abort error"
                            [] cr.outcome = "ParseFailure" -> "Response parse error"
                            [] OTHER -> "Request failed with status"

\* a POST has failed and ended under a per-request decision that allows
\* retries, the body being replayable
C5_Witness ==
    \E c \in Calls :
        /\ calls[c].pc = "done"
        /\ toUpperCase(MethodOf(opts[c])) = "POST"
        /\ ~calls[c].methodAllowed
        /\ calls[c].canReplayBody
        /\ calls[c].outcome = "StatusFailure"
        /\ opts[c].retry = BareRetry(DAttempts(1))

\* C6: when a time budget is configured, the budget check of an attempt
\* compares the time elapsed since startedAt at the top of the attempt with
\* the budget, and a retry is granted after an attempt only if that time
\* was under the budget: an attempt that starts at or beyond the budget is
\* the last one.
C6_BudgetAtTop ==
    \A c \in Calls :
        LET cr == calls[c]
        IN cr.maxOverallTime.def =>
              \A i \in DOMAIN cr.outcomes :
                  LET elapsed == cr.topAt[i] - cr.startedAt
                  IN /\ cr.outcomes[i].withinBudget = (elapsed < cr.maxOverallTime.v)
                     /\ cr.outcomes[i].willRetryNext => elapsed < cr.maxOverallTime.v

\* the same for the budgets other than 0, which the code reads as no budget
C6_PositiveBudgetAtTop ==
    \A c \in Calls :
        LET cr == calls[c]
        IN (cr.maxOverallTime.def /\ cr.maxOverallTime.v # 0) =>
              \A i \in DOMAIN cr.outcomes :
                  LET elapsed == cr.topAt[i] - cr.startedAt
                  IN /\ cr.outcomes[i].withinBudget = (elapsed < cr.maxOverallTime.v)
                     /\ cr.outcomes[i].willRetryNext => elapsed < cr.maxOverallTime.v

\* the first defined decision of a sequence
RECURSIVE FirstDefined(_)
FirstDefined(ds) ==
    IF ds = <<>> THEN Undef
    ELSE IF Head(ds) # Undef THEN Head(ds)
    ELSE FirstDefined(Tail(ds))

\* the entry of a decision map for the symbolic name of a status
ByName(map, status) ==
    IF codeToName(status) # "undefined" THEN DGet(map, codeToName(status)) ELSE Undef

\* C7, as stated: the decision for a status is the first defined of the
\* per-request entry for the code or its name, the global entry for the
\* code or its name, the per-request wildcard entry, the global wildcard
\* entry (the per-request entries being those the per-request retry option
\* holds under these keys).
C7_FourTiers ==
    (probe.fn = "decision" /\ probe.done) =>
        probe.decision =
            FirstDefined(<<DGet(probe.callRetry.sel, NumKey(probe.status)),
                           ByName(probe.callRetry.sel, probe.status),
                           DGet(probe.onStatus, NumKey(probe.status)),
                           ByName(probe.onStatus, probe.status),
                           DGet(probe.callRetry.sel, statusToWildcard(probe.status)),
                           DGet(probe.onStatus, statusToWildcard(probe.status))>>)

\* C7, as amended: the decision for a status is the first defined of the
\* per-request decision (one value, whatever the status), the global entry
\* for the code, the global entry for its name, the global wildcard entry;
\* a defined entry, false included, ends the lookup.
C7_DecisionOrder ==
    (probe.fn = "decision" /\ probe.done) =>
        probe.decision =
            FirstDefined(<<probe.callRetry.decision,
                           DGet(probe.onStatus, NumKey(probe.status)),
                           ByName(probe.onStatus, probe.status),
                           DGet(probe.onStatus, statusToWildcard(probe.status))>>)

\* a specific false has defeated a permissive wildcard
C7_Witness ==
    /\ probe.fn = "decision"
    /\ probe.done
    /\ probe.callRetry = NoRetryCall
    /\ DGet(probe.onStatus, NumKey(probe.status)) = Undef
    /\ ByName(probe.onStatus, probe.status) = DBool(FALSE)
    /\ DGet(probe.onStatus, statusToWildcard(probe.status)) = DBool(TRUE)
    /\ probe.decision = DBool(FALSE)

\* the first handler of a sequence
RECURSIVE FirstHandler(_)
FirstHandler(hs) ==
    IF hs = <<>> THEN NoHandler
    ELSE IF Head(hs) # NoHandler THEN Head(hs)
    ELSE FirstHandler(Tail(hs))

\* the handler of a map for the symbolic name of a status
HandlerByName(map, status) ==
    IF codeToName(status) # "undefined" THEN HGet(map, codeToName(status)) ELSE NoHandler

\* C8: the handler resolved for a status is that of the first populated of:
\* per-request code, per-request name, global code, global name, per-request
\* wildcard, global wildcard; none when none is populated.  With the code and
\* the wildcard registered in both maps it is the per-request handler of the
\* code.
C8_HandlerOrder ==
    (probe.fn = "handler" /\ probe.done) =>
        /\ probe.handler =
              FirstHandler(<<HGet(probe.local, NumKey(probe.status)),
                             HandlerByName(probe.local, probe.status),
                             HGet(probe.global, NumKey(probe.status)),
                             HandlerByName(probe.global, probe.status),
                             HGet(probe.local, statusToWildcard(probe.status)),
                             HGet(probe.global, statusToWildcard(probe.status))>>)
        /\ (\A m \in {probe.local, probe.global} :
               /\ HGet(m, NumKey(probe.status)) # NoHandler
               /\ HGet(m, statusToWildcard(probe.status)) # NoHandler)
           => probe.handler = Handler("local", NumKey(probe.status))

\* the code and the wildcard are registered in both maps, and the handler is
\* resolved
C8_Witness ==
    /\ probe.fn = "handler"
    /\ probe.done
    /\ \A m \in {probe.local, probe.global} :
          /\ HGet(m, NumKey(probe.status)) # NoHandler
          /\ HGet(m, statusToWildcard(probe.status)) # NoHandler
    /\ probe.handler = Handler("local", NumKey(probe.status))

\* a retry follows the i-th attempt of the call
RetryFollows(cr, i) ==
    \/ i < cr.fetches
    \/ i = cr.fetches /\ cr.pc \in {"delay", "top"}

\* the scenario of C9: the flag is set, every decision consulted is
\* {attempts: 1}, the server always answers the same handled status, and
\* nothing else forbids a retry
ScenarioOnce(c) ==
    LET cr == calls[c]
    IN /\ cr.effectiveOnce
       /\ cr.methodAllowed /\ cr.canReplayBody /\ ~cr.maxOverallTime.def
       /\ \A d \in Consulted(cr) : d = DAttempts(1)
       /\ \A i \in DOMAIN cr.outcomes :
             /\ cr.outcomes[i].kind = "StatusFailure"
             /\ cr.outcomes[i].status = cr.outcomes[1].status
             /\ cr.outcomes[i].resolved # NoHandler

\* C9: with the flag once set, the handler resolved for a failed attempt is
\* invoked on that attempt exactly when no retry follows it; with the flag
\* unset it is invoked on every failed attempt.  In the scenario the call
\* ends after two attempts and the handler is invoked on the second only.
C9_OnceFiresOnTerminalAttempt ==
    \A c \in Calls :
        LET cr == calls[c]
        IN /\ \A i \in FailedAttempts(cr) :
                 LET e == cr.outcomes[i]
                 IN e.resolved # NoHandler =>
                       /\ ~cr.effectiveOnce => e.fired
                       /\ cr.effectiveOnce =>
                             /\ RetryFollows(cr, i) => ~e.fired
                             /\ (cr.pc = "done" /\ ~RetryFollows(cr, i)) => e.fired
           /\ (cr.pc = "done" /\ ScenarioOnce(c)) =>
                 /\ Len(cr.outcomes) = 2
                 /\ ~cr.outcomes[1].fired
                 /\ cr.outcomes[2].fired

\* the scenario has ended
C9_Witness ==
    \E c \in Calls :
        /\ calls[c].pc = "done"
        /\ ScenarioOnce(c)
        /\ calls[c].outcomes[2].fired

\* the number of handler invocations of a call
Invocations(cr) == Cardinality({i \in DOMAIN cr.outcomes : cr.outcomes[i].fired})

\* the scenario of C10: the policy {500: true}, the flag once set, a handler
\* registered for 500 and none for 200, a server that answered 500 and then
\* 200, and the call has ended
ScenarioB(c) ==
    LET cr == calls[c]
    IN /\ cr.pc = "done"
       /\ config.retry.onStatus = OnStatus({"500"}, DBool(TRUE))
       /\ opts[c].retry = NoRetryCall
       /\ cr.effectiveOnce
       /\ pickStatusHandler(500, opts[c].on.handlers, config.on.handlers) # NoHandler
       /\ pickStatusHandler(200, opts[c].on.handlers, config.on.handlers) = NoHandler
       /\ Len(cr.outcomes) = 2
       /\ cr.outcomes[1].kind = "StatusFailure" /\ cr.outcomes[1].status = 500
       /\ cr.outcomes[2].kind = "Success" /\ cr.outcomes[2].status = 200

\* C10, as stated: in scenario B the handler is invoked once, none is
\* invoked for the 200 response, and the result has ok true.
C10_HandlerFiresOnce ==
    \A c \in Calls :
        ScenarioB(c) =>
            /\ Invocations(calls[c]) = 1
            /\ ~calls[c].outcomes[2].fired
            /\ calls[c].result.ok

\* C10, as amended: in scenario B no handler is invoked at all (the 500 was
\* retried, so its attempt was not the last), and the call returns a result
\* with ok true.
C10_HandlerNeverFires ==
    \A c \in Calls :
        ScenarioB(c) =>
            /\ Invocations(calls[c]) = 0
            /\ calls[c].result.ok
            /\ calls[c].result.how = "return"

\* scenario B has happened
C10_Witness == \E c \in Calls : ScenarioB(c)

\* the number of transport invocations a call has made by its attempts
Invoked(cr) == Len(cr.outcomes) + (IF cr.pc \in {"fetch", "parse"} THEN 1 ELSE 0)

\* the retry decision of the i-th attempt, from what the attempt met alone
Granted(cr, i) ==
    LET e == cr.outcomes[i]
    IN /\ e.kind # "Success"
       /\ cr.methodAllowed /\ cr.canReplayBody /\ e.withinBudget
       /\ allowAndDelayFromDecision(e.decision, e.attempt).allow

\* C11: a handler that throws or rejects, at any of the four call sites,
\* changes nothing: whether a retry is taken after an attempt, the number of
\* transport invocations and the final result or error are what the
\* outcomes, the decisions and the gating alone determine, whether the
\* handler invoked on the attempt threw or returned.
C11_HandlerThrowIsSwallowed ==
    \A c \in Calls :
        LET cr == calls[c]
        IN /\ cr.fetches = Invoked(cr)
           /\ \A i \in DOMAIN cr.outcomes :
                 LET e == cr.outcomes[i]
                 IN /\ e.willRetryNext = Granted(cr, i)
                    /\ (e.threw /\ e.willRetryNext) => RetryFollows(cr, i)
                    /\ (e.threw /\ ~e.willRetryNext) =>
                          (cr.pc = "done" /\ i = Len(cr.outcomes))
           /\ cr.pc = "done" => cr.result = FinalResult(cr)

\* a call whose handler threw on a retried failure and again on the final
\* success has returned its result
C11_Witness ==
    \E c \in Calls :
        LET cr == calls[c]
        IN /\ cr.pc = "done"
           /\ Len(cr.outcomes) = 2
           /\ cr.outcomes[1].threw /\ cr.outcomes[1].kind = "StatusFailure"
           /\ cr.outcomes[2].threw /\ cr.outcomes[2].kind = "Success"
           /\ cr.result.how = "return" /\ cr.result.ok

\* the network-error and the parsing-error handlers threw as well
C11_WitnessNetwork ==
    \E c \in Calls :
        /\ calls[c].pc = "done"
        /\ calls[c].outcomes[Len(calls[c].outcomes)].threw
        /\ calls[c].outcomes[Len(calls[c].outcomes)].kind = "NetworkFailure"
        /\ calls[c].result.message = "Network/Abort error"
C11_WitnessParse ==
    \E c \in Calls :
        /\ calls[c].pc = "done"
        /\ calls[c].outcomes[Len(calls[c].outcomes)].threw
        /\ calls[c].outcomes[Len(calls[c].outcomes)].kind = "ParseFailure"
        /\ calls[c].result.message = "Response parse error"

\* the final outcome of a call that has ended
Final(cr) == cr.outcomes[Len(cr.outcomes)]

\* the call has ended on a failure
EndedInFailure(cr) ==
    /\ cr.pc = "done"
    /\ Final(cr).kind \in {"NetworkFailure", "ParseFailure", "StatusFailure"}

\* error suppression as the options and the configuration ask for it
SuppressionOn(c) ==
    IF opts[c].suppressError # "undef" THEN opts[c].suppressError = "true"
    ELSE config.suppressError = "true"

\* the typed error of a failure: a CallError with a message and the status
\* (of a status failure), url, method, response (when there is one) and
\* cause (of a network or parse failure)
ThrowsTypedError(cr) ==
    /\ cr.result.how = "throw"
    /\ cr.result.typed
    /\ cr.result.message # ""
    /\ {"url", "method"} \subseteq cr.result.fields
    /\ ("status" \in cr.result.fields) = (Final(cr).kind = "StatusFailure")
    /\ Final(cr).kind = "StatusFailure" => cr.result.status = Some(Final(cr).status)
    /\ ("response" \in cr.result.fields) = (Final(cr).kind # "NetworkFailure")
    /\ ("cause" \in cr.result.fields) = (Final(cr).kind # "StatusFailure")

Selected(c) ==
    IF opts[c].returnFields.def /\ opts[c].returnFields.v # {}
    THEN opts[c].returnFields.v
    ELSE IF config.returnFields.def THEN config.returnFields.v
    ELSE returnFields

Answered(cr) ==
    /\ cr.pc \in {"handler", "delay", "done"}
    /\ cr.outcomes # <<>>
    /\ cr.res.present

\* C13, as stated: an attempt whose response declares application/json and
\* whose body is not valid JSON is a ParseFailure, read at once or through
\* the reader; when final, suppression on yields a result with ok: false and
\* error.message set, suppression off a typed error 'Response parse error'.
C13_DeclaredJsonIsParsed ==
    \A c \in Calls :
        LET cr == calls[c]
        IN (Answered(cr) /\ cr.res.contentType = "application/json"
                         /\ cr.res.body = "invalid") =>
              /\ Final(cr).kind = "ParseFailure"
              /\ cr.pc = "done" =>
                    IF SuppressionOn(c)
                    THEN /\ cr.result.how = "return"
                         /\ {"ok", "error"} \subseteq cr.result.fields
                         /\ cr.result.ok = FALSE
                         /\ cr.result.message # ""
                    ELSE /\ cr.result.how = "throw" /\ cr.result.typed
                         /\ cr.result.message = "Response parse error"

\* the body of the response is parsed as JSON: parseAs asks for it, or
\* parseAs is not given and the content type is application/json
ParsedAsJson(c, res) ==
    \/ opts[c].parseAs = "json"
    \/ opts[c].parseAs = "undefined" /\ res.contentType = "application/json"

\* C13, as amended: an attempt whose body is parsed as JSON (parseAs 'json',
\* or no parseAs and content type application/json) and is non-empty text
\* that is not valid JSON is a ParseFailure, read at once or through the
\* reader; when final, suppression on yields the failure result with
\* message 'Response parse error' reduced to the fields returnFields
\* selects, suppression off a typed error 'Response parse error'.
C13_MalformedJsonIsParseFailure ==
    \A c \in Calls :
        LET cr == calls[c]
        IN (Answered(cr) /\ ParsedAsJson(c, cr.res) /\ cr.res.body = "invalid") =>
              /\ Final(cr).kind = "ParseFailure"
              /\ cr.pc = "done" =>
                    IF SuppressionOn(c)
                    THEN /\ cr.result.how = "return"
                         /\ cr.result.ok = FALSE
                         /\ cr.result.message = "Response parse error"
                         /\ cr.result.fields = returnFields \cap Selected(c)
                    ELSE /\ cr.result.how = "throw" /\ cr.result.typed
                         /\ cr.result.message = "Response parse error"

\* malformed JSON declared as application/json, read through the reader
\* with no parseAs given, has ended the call with the typed error
C13_Witness ==
    \E c \in Calls :
        LET cr == calls[c]
        IN /\ cr.pc = "done"
           /\ cr.res.present
           /\ cr.res.contentType = "application/json" /\ cr.res.body = "invalid"
           /\ opts[c].parseAs = "undefined" /\ opts[c].wantsProgress
           /\ Final(cr).kind = "ParseFailure"
           /\ cr.result.how = "throw"
           /\ cr.result.message = "Response parse error"

\* the same body read as text at the request's demand is no failure
C13_WitnessText ==
    \E c \in Calls :
        LET cr == calls[c]
        IN /\ cr.pc = "done"
           /\ cr.res.present
           /\ cr.res.contentType = "application/json" /\ cr.res.body = "invalid"
           /\ opts[c].parseAs = "text"
           /\ Final(cr).kind = "Success"

\* C14: a transport failure caused by the caller's signal firing is not
\* retried: no transport invocation follows it, however permissive the
\* network-failure decision and the gating.
C14_CallerAbortNotRetried ==
    \A c \in Calls :
        LET cr == calls[c]
        IN \A i \in DOMAIN cr.outcomes :
              (cr.outcomes[i].kind = "NetworkFailure" /\ cr.outcomes[i].cause = "signal") =>
                  /\ ~cr.outcomes[i].willRetryNext
                  /\ cr.fetches = i

\* what the code does instead: the caller's abort is retried exactly when
\* any other network failure would be, and every later attempt is rejected
\* on the aborted signal again
C14_CallerAbortRetriedAsAnyFailure ==
    \A c \in Calls :
        LET cr == calls[c]
        IN \A i \in DOMAIN cr.outcomes :
              (cr.outcomes[i].kind = "NetworkFailure" /\ cr.outcomes[i].cause = "signal") =>
                  /\ cr.outcomes[i].willRetryNext = Granted(cr, i)
                  /\ cr.outcomes[i].decision =
                        Coalesce(cr.callDecision, config.retry.onNetworkError)
                  /\ \A j \in DOMAIN cr.outcomes :
                        j > i => (cr.outcomes[j].kind = "NetworkFailure"
                                  /\ cr.outcomes[j].cause = "signal")

\* a second transport invocation has followed the caller's abort
C14_RetriedAbort ==
    \E c \in Calls :
        /\ calls[c].pc = "done"
        /\ calls[c].fetches = 2
        /\ calls[c].outcomes[1].cause = "signal"
        /\ calls[c].outcomes[1].kind = "NetworkFailure"

\* the attempt ended because the caller's signal or the timer fired
AbortCauses == {"signal", "timeout"}

\* C15: whenever the caller's signal or the timeout fires while an attempt
\* is in flight, during the transport call or during the body read, the
\* attempt ends as a NetworkFailure, with the network-failure decision and
\* the network-error handler.
C15_AbortIsNetworkFailure ==
    \A c \in Calls :
        LET cr == calls[c]
        IN \A i \in DOMAIN cr.outcomes :
              cr.outcomes[i].cause \in AbortCauses =>
                  /\ cr.outcomes[i].kind = "NetworkFailure"
                  /\ cr.outcomes[i].decision =
                        Coalesce(cr.callDecision, config.retry.onNetworkError)
                  /\ cr.outcomes[i].resolved =
                        pickSpecial("network-error", opts[c].on.handlers,
                                    config.on.handlers)

\* what the code does: an abort during the transport call (no response at
\* hand) is a NetworkFailure, an abort during the body read a ParseFailure
\* with the parse-failure decision and the parsing-error handler
C15_AbortDuringReadIsParseFailure ==
    \A c \in Calls :
        LET cr == calls[c]
        IN \A i \in DOMAIN cr.outcomes :
              LET e == cr.outcomes[i]
                  read == e.status # 0
              IN e.cause \in AbortCauses =>
                    /\ e.kind = IF read THEN "ParseFailure" ELSE "NetworkFailure"
                    /\ e.decision =
                          Coalesce(cr.callDecision,
                                   IF read THEN config.retry.onParsingError
                                   ELSE config.retry.onNetworkError)
                    /\ e.resolved =
                          pickSpecial(IF read THEN "parsing-error" ELSE "network-error",
                                      opts[c].on.handlers, config.on.handlers)

\* the timer fired during the body read and the call failed with a parse
\* error
C15_TimeoutDuringRead ==
    \E c \in Calls :
        /\ calls[c].pc = "done"
        /\ Final(calls[c]).cause = "timeout"
        /\ Final(calls[c]).kind = "ParseFailure"
        /\ calls[c].result.message = "Response parse error"

\* the timeout the options and the configuration ask for
TimeoutAsked(c) == IF opts[c].timeout.def THEN opts[c].timeout ELSE config.timeout

\* C16: with an effective timeout T > 0 (the per-request timeout before the
\* configured one) every attempt arms a timer of its own, T after its start;
\* no attempt is still pending after that, and a transport invocation the
\* timer finds pending ends then with the abort error.  With no retry
\* configured the call then fails with 'Network/Abort error' caused by the
\* abort error (thrown as the typed error unless suppression is on).
\* Without a timeout no timer fires, and the caller's signal alone aborts
\* the transport, with the same result.
C16_TimeoutAbortsPendingFetch ==
    \A c \in Calls :
        LET cr == calls[c]
            T == TimeoutAsked(c)
            armed == T.def /\ T.v > 0
        IN /\ cr.pc \in {"fetch", "parse"} =>
                 cr.deadline = IF armed
                               THEN Some(Later(cr.topAt[Len(cr.topAt)], T.v))
                               ELSE None
           /\ \A i \in DOMAIN cr.outcomes :
                 LET e == cr.outcomes[i]
                 IN /\ armed => e.at <= Later(cr.topAt[i], T.v)
                    /\ e.cause = "timeout" =>
                          (armed /\ e.at = Later(cr.topAt[i], T.v))
           /\ (/\ cr.pc = "done"
               /\ Final(cr).kind = "NetworkFailure"
               /\ Final(cr).cause \in AbortCauses
               /\ Final(cr).decision = Undef) =>
                 /\ cr.fetches = 1
                 /\ cr.result.message = "Network/Abort error"
                 /\ cr.result.cause = Final(cr).cause
                 /\ IF SuppressionOn(c)
                    THEN cr.result.how = "return" /\ cr.result.ok = FALSE
                    ELSE cr.result.how = "throw" /\ cr.result.typed

\* the per-request timeout, shorter than the configured one, has aborted a
\* pending fetch, and the call has thrown
C16_Witness ==
    \E c \in Calls :
        LET cr == calls[c]
        IN /\ cr.pc = "done"
           /\ opts[c].timeout = Some(1) /\ config.timeout = Some(2)
           /\ cr.fetches = 1
           /\ Final(cr).kind = "NetworkFailure" /\ Final(cr).cause = "timeout"
           /\ Final(cr).at = 1
           /\ cr.result.how = "throw" /\ cr.result.message = "Network/Abort error"

\* without any timeout the caller's signal has aborted a pending fetch
C16_WitnessSignal ==
    \E c \in Calls :
        LET cr == calls[c]
        IN /\ cr.pc = "done"
           /\ ~TimeoutAsked(c).def
           /\ cr.fetches = 1
           /\ Final(cr).kind = "NetworkFailure" /\ Final(cr).cause = "signal"
           /\ cr.result.how = "throw" /\ cr.result.message = "Network/Abort error"

\* the run of parseWithReader has ended
ReadEnded == reader.pc \in {"returned", "threw"}

\* C17: in a read for which the global progress channel is enabled and its
\* start hook has been called, the done hook is called exactly once, when
\* the read ends, whether it ends well or fails; so done is called as often
\* as start.
C17_DoneMatchesStart ==
    /\ reader.dones <= 1
    /\ ~ReadEnded => reader.dones = 0
    /\ (ReadEnded /\ reader.starts > 0 /\ "done" \in reader.hooks) =>
          reader.dones = reader.starts

\* the same for the reads that reach the try: once the reader is acquired,
\* done follows start whatever happens
C17_DoneOnceAfterReaderAcquired ==
    /\ reader.dones <= 1
    /\ ~ReadEnded => reader.dones = 0
    /\ (ReadEnded /\ ~reader.locked /\ reader.starts > 0 /\ "done" \in reader.hooks) =>
          reader.dones = reader.starts

\* start has been called, getReader has thrown, and done was never called
C17_StartWithoutDone ==
    /\ reader.pc = "threw"
    /\ "done" \in reader.hooks
    /\ reader.starts = 1
    /\ reader.dones = 0

\* the first k elements of a sequence
Prefix(seq, k) == SubSeq(seq, 1, k)

\* C18: there is one notification per chunk received, in the order of
\* arrival; loaded starts from 0, never decreases, and in each notification
\* is the number of bytes received so far, each step adding the size of the
\* chunk; so the steps add up to the bytes consumed, which is the length of
\* the assembled buffer.
C18_LoadedCountsBytes ==
    /\ reader.pc = "reading" /\ reader.chunks = <<>> => reader.loaded = 0
    /\ reader.loaded = Size(reader.chunks)
    /\ reader.onProgress => Len(reader.notes) = Len(reader.chunks)
    /\ ~reader.onProgress => reader.notes = <<>>
    /\ \A k \in DOMAIN reader.notes :
          LET before == IF k = 1 THEN 0 ELSE reader.notes[k - 1].loaded
          IN /\ reader.notes[k].loaded = Size(Prefix(reader.chunks, k))
             /\ reader.notes[k].loaded >= before
             /\ reader.notes[k].loaded - before = reader.chunks[k]
    /\ (reader.pc = "returned" /\ reader.hasBody /\ reader.parseAs = "arrayBuffer") =>
          (reader.size = reader.loaded /\ reader.size = Size(reader.chunks))

\* two chunks of 1 and 2 bytes have been notified and assembled
C18_Witness ==
    /\ reader.pc = "returned"
    /\ reader.parseAs = "arrayBuffer"
    /\ reader.chunks = <<1, 2>>
    /\ Len(reader.notes) = 2
    /\ reader.notes[1].loaded = 1 /\ reader.notes[2].loaded = 3
    /\ reader.size = 3

\* the indeterminate signal follows start at once
NullAfterStart ==
    (reader.hasBody /\ reader.pc \notin {"parse", "call"}
        /\ reader.parseAs \notin {"response", "stream"} /\ reader.useProgressApi
        /\ "set" \in reader.hooks) =>
        (reader.sets # <<>> /\ reader.sets[1] = Null)

\* a read that has ended well and has notified
ReadNotified == reader.pc = "returned" /\ reader.hasBody /\ reader.notes # <<>>

\* C19, as stated: when a content length is declared, the last notification
\* of a completed read has the declared total and percent 1; when none is
\* declared every notification has percent null and the global channel is
\* given null right after start.
C19_FinalPercentIsOne ==
    IF reader.contentLength.kind = "number"
    THEN ReadNotified =>
            LET last == reader.notes[Len(reader.notes)]
            IN /\ last.total = Some(reader.contentLength.n)
               /\ last.percent = One
    ELSE /\ \A k \in DOMAIN reader.notes : reader.notes[k].percent = Null
         /\ NullAfterStart

\* C19, as amended: when a content length other than 0 is declared, the
\* last notification of a completed read has the declared total, and its
\* percent is 1 if the bytes consumed reach the declared length and the
\* fraction consumed / declared otherwise; when no content length is
\* declared, or 0, every notification has percent null and the global
\* channel is given null right after start.
C19_FinalPercent ==
    IF reader.contentLength.kind = "number" /\ reader.contentLength.n # 0
    THEN ReadNotified =>
            LET last == reader.notes[Len(reader.notes)]
                n == reader.contentLength.n
            IN /\ last.total = Some(n)
               /\ last.percent = IF Size(reader.chunks) >= n THEN One
                                 ELSE Fraction(Size(reader.chunks), n)
    ELSE /\ \A k \in DOMAIN reader.notes : reader.notes[k].percent = Null
         /\ NullAfterStart

\* a body of the declared 2 bytes has been read in two chunks
C19_Witness ==
    /\ ReadNotified
    /\ reader.contentLength = Length(2)
    /\ reader.chunks = <<1, 1>>
    /\ reader.notes[2].total = Some(2)
    /\ reader.notes[2].percent = One

\* a completed read of fewer bytes than declared
C19_ShortBody ==
    /\ ReadNotified
    /\ reader.contentLength = Length(3)
    /\ reader.chunks = <<1, 1>>
    /\ reader.notes[2].percent = Fraction(2, 3)

\* percent is null, or a number from 0 to 1
InRange(percent) == percent.null \/ (0 <= percent.num /\ percent.num <= percent.den)

\* C20, as stated: percent is null or in [0,1]; it is null exactly when the
\* total is unknown; it is 1 only in a notification after which no chunk
\* arrives.
C20_PercentOneOnlyAtEnd ==
    \A k \in DOMAIN reader.notes :
        LET note == reader.notes[k]
        IN /\ InRange(note.percent)
           /\ note.percent.null = ~note.total.def
           /\ note.percent = One => k = Len(reader.chunks)

\* C20, as amended: percent is null or in [0,1]; it is null exactly when
\* the total is absent or 0; it is 1 exactly when the bytes loaded have
\* reached the total, which may be before the last chunk when the body is
\* longer than declared, and is below 1 otherwise.
C20_PercentRange ==
    \A k \in DOMAIN reader.notes :
        LET note == reader.notes[k]
            known == note.total.def /\ note.total.v # 0
        IN /\ InRange(note.percent)
           /\ note.percent.null = ~known
           /\ known => /\ (note.percent = One) = (note.loaded >= note.total.v)
                       /\ note.percent # One => note.percent = Fraction(note.loaded, note.total.v)
                       /\ note.percent # One => note.percent.num < note.percent.den

\* percent was 1 in a notification, and another chunk has arrived since
C20_Witness ==
    /\ Len(reader.notes) = 2
    /\ reader.contentLength = Length(1)
    /\ reader.notes[1].percent = One
    /\ reader.notes[2].percent = One
    /\ reader.notes[2].loaded > reader.notes[1].loaded

\* the global progress channel has been touched
ChannelTouched == reader.starts > 0 \/ reader.dones > 0 \/ reader.sets # <<>>

\* the parse target is the raw response or the raw stream
RawTarget == reader.parseAs \in {"response", "stream"}

\* C21: the hooks of the global progress channel are invoked only for a
\* call that opted in to the channel and whose parse target is neither the
\* raw response nor the raw stream; with one of these targets no hook and no
\* per-call callback is invoked, opted in or not; and a call that gives only
\* a per-call callback is notified of every chunk while the channel is never
\* touched.
C21_HooksOnlyForOptedInReads ==
    /\ ChannelTouched => (reader.useProgressApi /\ ~RawTarget)
    /\ RawTarget => (~ChannelTouched /\ reader.notes = <<>>)
    /\ (reader.onProgress /\ ~reader.useProgressApi) =>
          /\ ~ChannelTouched
          /\ reader.pc \in {"reading", "finally", "returned", "threw"} /\ ~RawTarget
                /\ reader.hasBody /\ ~reader.locked
                => Len(reader.notes) = Len(reader.chunks)

\* a call that opted in, with a callback and a channel of three hooks, got
\* the raw response; nothing was invoked
C21_Witness ==
    /\ reader.pc = "returned"
    /\ reader.result = "response"
    /\ reader.useProgressApi /\ reader.onProgress
    /\ reader.hooks = {"start", "set", "done"}
    /\ ~ChannelTouched /\ reader.notes = <<>>

\* a call with a callback only was notified of two chunks, and the channel
\* of three hooks was not touched
C21_WitnessCallbackOnly ==
    /\ reader.pc = "returned"
    /\ reader.onProgress /\ ~reader.useProgressApi
    /\ reader.hooks = {"start", "set", "done"}
    /\ Len(reader.notes) = 2
    /\ ~ChannelTouched

\* computeDelay has been applied
Delayed == probe.fn = "delay" /\ probe.done

\* the retry-after value of the response is one the code can use
ValidRetryAfter(response, dateNow) ==
    /\ response.present
    /\ response.retryAfter.kind \in {"secs", "date"}

\* the values computeDelay may return for the arguments of the probe
ProbeDelays ==
    computeDelay(probe.attempt, probe.maxDelay, probe.respectRetryAfterHeader,
                 probe.backoffBase, probe.response, probe.delay, probe.dateNow)

\* C22: computeDelay returns a value from 0 to maxDelay for every
\* combination of its arguments, and when an explicit numeric delay is
\* given, or a valid retry-after value is given and respected, the value is
\* a function of the arguments alone.
C22_DelayWithinBounds ==
    Delayed =>
        /\ 0 <= probe.result /\ probe.result <= probe.maxDelay
        /\ (probe.delay.def
               \/ (probe.respectRetryAfterHeader
                     /\ ValidRetryAfter(probe.response, probe.dateNow)))
              => Cardinality(ProbeDelays) = 1

\* the same for the backoff bases that are not negative
C22_DelayWithinBoundsOfPositiveBase ==
    (Delayed /\ probe.backoffBase >= 0) => C22_DelayWithinBounds

\* a negative delay has been returned
C22_NegativeDelay ==
    /\ Delayed
    /\ probe.backoffBase = -2 /\ probe.attempt = 0 /\ ~probe.delay.def
    /\ probe.response = NoResponse
    /\ probe.maxDelay = DEFAULT_MAX_DELAY
    /\ probe.result = -1

\* min(hi, max(lo, v))
Clamp(v, lo, hi) == IF v < lo THEN lo ELSE IF v > hi THEN hi ELSE v

C23_WitnessExplicit ==
    /\ Delayed
    /\ probe.delay = Some(2)
    /\ probe.respectRetryAfterHeader
    /\ probe.response.present /\ probe.response.retryAfter = RetryAfterSecs(1)
    /\ probe.maxDelay = 1500
    /\ probe.result = 2

\* an unparseable retry-after fell through to the backoff
C23_WitnessBackoff ==
    /\ Delayed
    /\ ~probe.delay.def
    /\ probe.respectRetryAfterHeader
    /\ probe.response.present /\ probe.response.retryAfter = RetryAfterBad
    /\ probe.backoffBase = 2 /\ probe.attempt = 1 /\ probe.maxDelay = 1500
    /\ probe.result = 3

\* the parse target the request asks for, else the one the declared content
\* type indicates
ExpectedTarget(explicitParse, contentType) ==
    CASE explicitParse # "undefined" -> explicitParse
      [] contentType = "application/json" -> "json"
      [] contentType = "application/json; charset=utf-8" -> "json"
      [] contentType = "text/plain" -> "text"
      [] contentType = "" -> "text"

C27_WitnessMissing ==
    \E c \in Calls :
        LET cr == calls[c]
        IN /\ cr.pc = "done"
           /\ opts[c].parseAs = "undefined"
           /\ cr.res.present /\ cr.res.contentType = ""
           /\ cr.parseAs = "text"
           /\ cr.res.body = "invalid" /\ Final(cr).kind = "Success"

\* a response declared as JSON was read as text because the request says so
C27_WitnessExplicit ==
    \E c \in Calls :
        LET cr == calls[c]
        IN /\ cr.pc = "done"
           /\ opts[c].parseAs = "text"
           /\ cr.res.contentType = "application/json"
           /\ cr.parseAs = "text"
           /\ cr.res.body = "invalid" /\ Final(cr).kind = "Success"

\* the call has returned or thrown
Resolved(cr) == cr.result.how # "none"

\* the state of the attempt loop of a call; it ends in the outcome of the
\* last attempt
Phase(cr) ==
    CASE Resolved(cr) -> IF cr.outcome = "Success" THEN "Success" ELSE "Failed"
      [] cr.pc \in {"off", "init"} -> "Idle"
      [] cr.pc = "delay" -> "Retrying"
      [] OTHER -> "Attempting"

\* C28: the loop of a call goes from Attempting to Success, to Retrying or
\* to Failed, and from Retrying to Attempting once the computed delay is
\* over (at once when the delay is 0), the attempt counted; Success and
\* Failed are left by no step: once the call has resolved it invokes no
\* transport and no handler, and sleeps no delay.
C28_LoopTransitions ==
    [][\A c \in Calls :
          LET a == calls[c]
              b == calls'[c]
              last == b.outcomes[Len(b.outcomes)]
          IN /\ Phase(a) \in {"Success", "Failed"} => b = a
             /\ Phase(a) = "Idle" => Phase(b) \in {"Idle", "Attempting"}
             /\ Phase(a) = "Attempting" =>
                   \/ Phase(b) = "Attempting" /\ b.attempt = a.attempt
                   \/ /\ Phase(b) = "Attempting" /\ b.pc = "top"
                      /\ b.attempt = a.attempt + 1 /\ b.fetches = a.fetches
                      /\ last.willRetryNext
                   \/ /\ Phase(b) = "Retrying"
                      /\ b.attempt = a.attempt /\ b.fetches = a.fetches
                      /\ last.willRetryNext
                   \/ /\ Phase(b) \in {"Success", "Failed"}
                      /\ b.attempt = a.attempt /\ b.fetches = a.fetches
                      /\ ~last.willRetryNext
                      /\ last.kind = b.outcome
             /\ Phase(a) = "Retrying" =>
                   \/ Phase(b) = "Retrying" /\ b.attempt = a.attempt /\ b.wake = a.wake
                   \/ /\ Phase(b) = "Attempting" /\ b.pc = "top"
                      /\ b.attempt = a.attempt + 1 /\ b.fetches = a.fetches
                      /\ now' >= a.wake]_vars

\* a call has failed after a retry that slept its delay
C28_Witness ==
    \E c \in Calls :
        LET cr == calls[c]
        IN /\ Phase(cr) = "Failed"
           /\ cr.pc = "done"
           /\ cr.attempt = 1 /\ cr.fetches = 2
           /\ cr.wake > 0 /\ now >= cr.wake

\* C29: the attempt counter starts at 0 and goes up by one, and only when
\* a retry is taken; each attempt invokes the transport once; so whenever
\* the outcome of an attempt has been classified, and when the call has
\* resolved, the transport invocations made by the call are attempt + 1.
C29_FetchesAreAttemptPlusOne ==
    \A c \in Calls :
        LET cr == calls[c]
        IN /\ cr.pc \in {"off", "init"} => (cr.attempt = 0 /\ cr.fetches = 0)
           /\ \A i \in DOMAIN cr.outcomes :
                 /\ cr.outcomes[i].attempt = i - 1
                 /\ i < Len(cr.outcomes) => cr.outcomes[i].willRetryNext
           /\ cr.pc = "top" =>
                 (cr.fetches = cr.attempt /\ Len(cr.outcomes) = cr.attempt)
           /\ cr.pc \in {"fetch", "parse"} =>
                 (cr.fetches = cr.attempt + 1 /\ Len(cr.outcomes) = cr.attempt)
           /\ cr.pc \in {"handler", "delay", "done"} =>
                 (cr.fetches = cr.attempt + 1 /\ Len(cr.outcomes) = cr.fetches)
           /\ cr.attempt > 0 => cr.outcomes[cr.attempt].willRetryNext

\* a call has resolved after two retries and three transport invocations
C29_Witness ==
    \E c \in Calls :
        LET cr == calls[c]
        IN /\ cr.pc = "done"
           /\ cr.attempt = 2 /\ cr.fetches = 3
           /\ Len(cr.outcomes) = 3

\* the attempt whose outcome is the last of the history is still the
\* current one
AtLastOutcome(cr) == cr.pc \in {"handler", "delay", "done"}

\* C30: every attempt has one outcome of NetworkFailure, ParseFailure,
\* StatusFailure and Success: NetworkFailure when the transport failed;
\* else ParseFailure when the body could not be parsed, whatever the
\* status; StatusFailure only for a parsed body with a non-success status;
\* Success for a success status.  So a response with a non-success status
\* whose body cannot be parsed gets the parse-failure decision and the
\* parsing-error handler, not those of its status.
C30_ClassificationOrder ==
    \A c \in Calls :
        LET cr == calls[c]
            local == opts[c].on.handlers
            global == config.on.handlers
        IN /\ \A i \in DOMAIN cr.outcomes :
                 LET o == cr.outcomes[i]
                 IN /\ o.kind \in {"NetworkFailure", "ParseFailure", "StatusFailure", "Success"}
                    /\ (o.kind = "NetworkFailure") = (o.status = 0)
                    /\ o.kind = "NetworkFailure" =>
                          /\ o.decision = Coalesce(cr.callDecision, config.retry.onNetworkError)
                          /\ o.resolved = pickSpecial("network-error", local, global)
                    /\ o.kind = "ParseFailure" =>
                          /\ o.decision = Coalesce(cr.callDecision, config.retry.onParsingError)
                          /\ o.resolved = pickSpecial("parsing-error", local, global)
                    /\ o.kind = "StatusFailure" =>
                          /\ ~IsOk(o.status)
                          /\ o.decision = Coalesce(cr.callDecision,
                                              decisionFromStatus(o.status, config.retry.onStatus))
                          /\ o.resolved = pickStatusHandler(o.status, local, global)
                          /\ o.cause = "none"
                    /\ o.kind = "Success" =>
                          /\ IsOk(o.status)
                          /\ o.resolved = pickStatusHandler(o.status, local, global)
                          /\ o.cause = "none"
           /\ (AtLastOutcome(cr) /\ cr.res.present) =>
                 LET o == cr.outcomes[Len(cr.outcomes)]
                     data == Parse(cr.res, opts[c].parseAs, opts[c].wantsProgress)
                 IN /\ data = "throws" => o.kind = "ParseFailure"
                    /\ o.kind \in {"StatusFailure", "Success"} => data # "throws"

\* a 500 whose body could not be parsed got the parse-failure decision,
\* the map of status decisions holding another for 500
C30_Witness ==
    \E c \in Calls :
        LET cr == calls[c]
        IN /\ cr.outcomes # <<>>
           /\ cr.outcomes[1].kind = "ParseFailure"
           /\ cr.outcomes[1].status = 500
           /\ cr.callDecision = Undef
           /\ config.retry.onParsingError = DBool(TRUE)
           /\ DGet(config.retry.onStatus, "500") = DAttempts(2)
           /\ cr.outcomes[1].decision = DBool(TRUE)

\* a 500 whose body could not be parsed got the parsing-error handler,
\* there being a handler for 500
C30_WitnessHandler ==
    \E c \in Calls :
        LET cr == calls[c]
        IN /\ cr.outcomes # <<>>
           /\ cr.outcomes[1].kind = "ParseFailure"
           /\ cr.outcomes[1].status = 500
           /\ HGet(config.on.handlers, "500") # NoHandler
           /\ cr.outcomes[1].resolved = Handler("global", "parsing-error")
           /\ cr.outcomes[1].fired

\* the outcome o, the i-th of call c, is what the options of c and the
\* configuration make of it
OwnOutcome(c, i, o) ==
    LET callDecision == callDecisionOf(opts[c].retry)
        local == opts[c].on.handlers
        global == config.on.handlers
        within == /\ MethodAllowed(MethodOf(opts[c]), RetryMethods(config.retry))
                  /\ opts[c].body # "stream"
                  /\ o.withinBudget
    IN /\ o.attempt = i - 1
       /\ o.decision =
             CASE o.kind = "NetworkFailure" ->
                     Coalesce(callDecision, config.retry.onNetworkError)
               [] o.kind = "ParseFailure" ->
                     Coalesce(callDecision, config.retry.onParsingError)
               [] o.kind = "StatusFailure" ->
                     Coalesce(callDecision,
                              decisionFromStatus(o.status, config.retry.onStatus))
               [] OTHER -> Undef
       /\ o.resolved =
             CASE o.kind = "NetworkFailure" -> pickSpecial("network-error", local, global)
               [] o.kind = "ParseFailure" -> pickSpecial("parsing-error", local, global)
               [] OTHER -> pickStatusHandler(o.status, local, global)
       /\ o.willRetryNext =
             (o.kind # "Success" /\ within
                /\ allowAndDelayFromDecision(o.decision, i - 1).allow)
       /\ o.fired =
             (o.resolved # NoHandler
                /\ (o.kind = "Success"
                      \/ ~TriOr(opts[c].on.once, config.on.once, FALSE)
                      \/ ~o.willRetryNext))

\* every call has the history and the end its own options give it, and
\* the token is what the caller wrote last
OwnHistory ==
    /\ \A c \in Calls :
          LET cr == calls[c]
          IN /\ \A i \in DOMAIN cr.outcomes : OwnOutcome(c, i, cr.outcomes[i])
             /\ Resolved(cr) =>
                   LET last == cr.outcomes[Len(cr.outcomes)]
                       suppress == TriOr(opts[c].suppressError, config.suppressError, FALSE)
                   IN /\ ~last.willRetryNext
                      /\ cr.result.ok = (last.kind = "Success")
                      /\ cr.result.how =
                            IF last.kind # "Success" /\ ~suppress THEN "throw" ELSE "return"
    /\ internalToken = tokenApi.written
    /\ tokenApi.got.called => tokenApi.got.value = tokenApi.got.wanted

\* a step of one call changes no other call and not the token, and a use
\* of call.token changes no call
OwnSteps ==
    /\ \A c \in Calls :
          calls'[c] # calls[c] =>
             /\ \A d \in Calls \ {c} : calls'[d] = calls[d]
             /\ internalToken' = internalToken
    /\ internalToken' # internalToken => calls' = calls

\* C24: two calls under way on one client at the same time, their steps
\* interleaved in any way, do not affect each other's attempt counter, retry
\* decisions, handler invocations or end; the one thing they share is the
\* cached token, which is what was written last: token.get returns the
\* value of the last token.set, and undefined after token.clear.
C24_CallsAreIndependent == []OwnHistory /\ [][OwnSteps]_vars

\* both calls have ended after a retry each, one thrown and one returned,
\* having read different tokens
C24_Witness ==
    /\ calls[1].pc = "done" /\ calls[2].pc = "done"
    /\ calls[1].attempt = 1 /\ calls[2].attempt = 1
    /\ calls[1].result.how = "throw" /\ calls[2].result.how = "return"
    /\ calls[1].tokenAt # calls[2].tokenAt
    /\ calls[2].outcomes[2].resolved = Handler("local", "500")

\* get has returned B after set("A") and set("B"), and undefined after clear
C24_WitnessToken ==
    /\ tokenApi.got.called
    /\ tokenApi.got.value = String("B")
    /\ internalToken = NoString
    /\ \E c \in Calls : calls[c].tokenAt = String("A") /\ calls[c].pc = "parse"

\* the names of a header list that stand for the header name
Given(list, name) == {k \in DOMAIN list : toLowerCase(k) = name}

\* the value of the header name after the merge, "" when neither list has it
MergedValue(c, name) ==
    IF Given(opts[c].headers, name) # {}
    THEN opts[c].headers[CHOOSE k \in Given(opts[c].headers, name) : TRUE]
    ELSE IF Given(config.headers, name) # {}
    THEN config.headers[CHOOSE k \in Given(config.headers, name) : TRUE]
    ELSE ""

\* the source the credential of call c is taken from
CredentialSource(c) ==
    IF opts[c].token # NoToken THEN opts[c].token
    ELSE IF calls[c].tokenAt.def THEN TokenString(calls[c].tokenAt.v)
    ELSE config.token

\* a source fails
Fails(token) == token.kind = "function" /\ token.how = "throws"

\* a source yields a credential
Yields(token) ==
    /\ token.v # ""
    /\ token.kind = "string" \/ (token.kind = "function" /\ token.how = "returns")

\* the value of a header of a Headers object, "" when it has none
ValueOf(headers, name) == IF name \in DOMAIN headers THEN headers[name] ELSE ""

\* C25: a bearer authorization header is derived from a credential only
\* when the merged headers (those of the configuration, overridden by those
\* of the request) have no authorization header; one that is set is sent as
\* it is.  The credential is that of the first source there is of the token
\* of the request, the cached token and the token of the configuration; a
\* source that fails or yields nothing leaves the request without an
\* authorization header, and the call does not fail.
C25_AuthorizationHeader ==
    \A c \in Calls :
        LET cr == calls[c]
            source == CredentialSource(c)
        IN Started(cr) =>
              /\ ValueOf(cr.baseHeaders, "x-id") = MergedValue(c, "x-id")
              /\ ValueOf(cr.baseHeaders, "authorization") =
                    IF MergedValue(c, "authorization") # ""
                    THEN MergedValue(c, "authorization")
                    ELSE IF Yields(source) THEN "Bearer " \o source.v
                    ELSE ""
              /\ DOMAIN cr.baseHeaders \subseteq {"authorization", "x-id"}
              /\ \A n \in DOMAIN cr.baseHeaders : cr.baseHeaders[n] # ""
              /\ cr.sent # <<>> => cr.sent[1].headers = cr.baseHeaders
              /\ (cr.pc = "done" /\ (Fails(source) \/ ~Yields(source))
                    /\ ~transport.rejects /\ transport.statuses = {200}) =>
                    (cr.result.how = "return" /\ cr.result.ok)

\* the cached token B was taken, the configuration having a token function
C25_Witness ==
    \E c \in Calls :
        LET cr == calls[c]
        IN /\ cr.pc = "done"
           /\ opts[c].token = NoToken /\ opts[c].headers = NoHeaders
           /\ config.token = TokenFn("returns", "G")
           /\ cr.tokenAt = String("B")
           /\ cr.sent[1].headers = [n \in {"authorization"} |-> "Bearer B"]

\* an authorization header of the request was sent as it is, the
\* configured one overridden and the tokens not used
C25_WitnessExplicit ==
    \E c \in Calls :
        LET cr == calls[c]
        IN /\ cr.pc = "done"
           /\ opts[c].token = TokenString("C")
           /\ opts[c].headers = [n \in {"Authorization"} |-> "Basic call"]
           /\ config.headers = [n \in {"authorization"} |-> "Basic cfg"]
           /\ cr.sent[1].headers = [n \in {"authorization"} |-> "Basic call"]

\* the token function of the request threw; the call went on without an
\* authorization header, a token being cached, and returned
C25_WitnessFails ==
    \E c \in Calls :
        LET cr == calls[c]
        IN /\ cr.pc = "done"
           /\ opts[c].token = TokenFn("throws", "")
           /\ cr.tokenAt = String("A")
           /\ "authorization" \notin DOMAIN cr.sent[1].headers
           /\ cr.result.how = "return" /\ cr.result.ok

\* C26: the headers, with the authorization header derived from the
\* credential, and the body are taken once before the first attempt, and
\* the transport is given headers equal to them and the same body on every
\* attempt: a transport that changes the headers it was given, or a cached
\* token replaced between the attempts, changes nothing of what the later
\* attempts send.
C26_AttemptsSendTheCapture ==
    \A c \in Calls :
        LET cr == calls[c]
        IN /\ Len(cr.sent) = cr.fetches
           /\ \A i \in DOMAIN cr.sent :
                 /\ cr.sent[i].headers = cr.sent[1].headers
                 /\ cr.sent[i].headers = cr.baseHeaders
                 /\ cr.sent[i].body = opts[c].body
           /\ (cr.sent # <<>> /\ opts[c].token = NoToken /\ config.token = TokenString("A")
                 /\ ~HeadersHas(NewHeaders(config.headers), "authorization")
                 /\ ~HeadersHas(NewHeaders(opts[c].headers), "authorization")) =>
                 \A i \in DOMAIN cr.sent :
                    cr.sent[i].headers["authorization"] =
                       "Bearer " \o (IF cr.tokenAt.def THEN cr.tokenAt.v ELSE "A")

\* the second attempt sent the headers of the first, the transport having
\* changed those it was given on both attempts and the token having been
\* replaced since the call began
C26_Witness ==
    \E c \in Calls :
        LET cr == calls[c]
        IN /\ cr.pc = "done"
           /\ Len(cr.sent) = 2
           /\ cr.mutations = 2
           /\ cr.headers["authorization"] = "Tampered"
           /\ cr.tokenAt = String("A") /\ internalToken = String("B")
           /\ cr.sent[2].headers =
                 [n \in {"authorization", "x-id"} |->
                     IF n = "x-id" THEN "cfg" ELSE "Bearer A"]
           /\ cr.sent[2].body = "string"

\* every transport invocation but one that is pending or whose body is
\* being read has been classified
OneInFlight ==
    \A c \in Calls :
        LET cr == calls[c]
        IN cr.fetches =
              Len(cr.outcomes) + (IF cr.pc \in {"fetch", "parse"} THEN 1 ELSE 0)

\* the order of the steps of a call
InOrder ==
    \A c \in Calls :
        LET a == calls[c]
            b == calls'[c]
            classified == Len(b.outcomes) = Len(a.outcomes) + 1
            last == b.outcomes[Len(b.outcomes)]
        IN /\ classified => a.pc \in {"fetch", "parse"}
           \* the handler is invoked when the outcome is classified
           /\ (classified /\ last.fired) => b.pc = "handler"
           /\ (b.pc = "handler" /\ a.pc # "handler") => (classified /\ last.fired)
           \* the sleep begins after the handler has returned
           /\ (b.pc = "delay" /\ a.pc # "delay") =>
                 /\ a.pc = "handler" \/ (classified /\ ~last.fired)
                 /\ b.willRetryNext
                 /\ b.wake >= now'
                 /\ b.fetches = a.fetches
           \* a retry begins without a sleep only when there is no delay
           /\ (b.pc = "top" /\ a.pc \in {"fetch", "parse", "handler"}) =>
                 /\ a.pc = "handler" \/ (classified /\ ~last.fired)
                 /\ b.willRetryNext
                 /\ \E d \in Delays([b EXCEPT !.attempt = a.attempt]) : d <= 0
           \* the sleep has ended when the next attempt begins
           /\ (a.pc = "delay" /\ b.pc # "delay") =>
                 /\ b.pc = "top"
                 /\ now' >= a.wake
                 /\ b.fetches = a.fetches
           \* the transport is invoked at the top of an attempt only
           /\ b.fetches # a.fetches =>
                 /\ a.pc = "top" /\ b.pc = "fetch"
                 /\ b.fetches = a.fetches + 1
                 /\ Len(a.outcomes) = a.fetches

\* C31: within a call the events are in order: on a failed attempt the
\* handler, when it fires, is invoked and awaited after the outcome is
\* classified and before the delay begins; the delay has ended before the
\* next transport invocation begins; and no two transport invocations of a
\* call are pending at the same time.
C31_EventsInOrder == []OneInFlight /\ [][InOrder]_vars

\* a handler fired on a failed attempt that was retried after a delay
C31_Witness ==
    \E c \in Calls :
        LET cr == calls[c]
        IN /\ cr.pc = "done"
           /\ \E i \in 1..(cr.fetches - 1) :
                 /\ cr.outcomes[i].fired /\ cr.outcomes[i].willRetryNext
                 /\ cr.topAt[i + 1] > cr.outcomes[i].at

\* the decision given with the request, bare or in the wrapper
OwnDecision(c) == opts[c].retry.decision

\* the gates of a retry other than the decision
Eligible(c, o) ==
    /\ MethodAllowed(MethodOf(opts[c]), RetryMethods(config.retry))
    /\ opts[c].body # "stream"
    /\ o.withinBudget

\* C32: a decision given with the request, bare or in the wrapper, is,
\* when it is defined, the decision of network failures, parse failures
\* and every status that is not a success alike, and no entry of the
\* configuration (for a status, for network errors, for parsing errors) is
\* consulted: false given with the request disables the retries the
\* configuration would allow, and true permits one retry after any failure.
C32_OwnDecisionForEveryFailure ==
    \A c \in Calls :
        \A i \in DOMAIN calls[c].outcomes :
            LET o == calls[c].outcomes[i]
            IN (OwnDecision(c) # Undef /\ o.kind # "Success") =>
                  /\ o.decision = OwnDecision(c)
                  /\ OwnDecision(c) = DBool(FALSE) => ~o.willRetryNext
                  /\ OwnDecision(c) = DBool(TRUE) =>
                        (o.willRetryNext = (o.attempt = 0 /\ Eligible(c, o)))

\* false given with the request ended the call after a status that the
\* configuration retries
C32_Witness ==
    \E c \in Calls :
        LET cr == calls[c]
        IN /\ cr.pc = "done" /\ cr.fetches = 1
           /\ OwnDecision(c) = DBool(FALSE)
           /\ cr.outcomes[1].kind = "StatusFailure"
           /\ decisionFromStatus(cr.outcomes[1].status, config.retry.onStatus) = DBool(TRUE)
           /\ Eligible(c, cr.outcomes[1])

\* true given with the request retried a network failure and a parse
\* failure once, the configuration having no decision for either
C32_WitnessTrue ==
    \E c \in Calls :
        LET cr == calls[c]
        IN /\ cr.pc = "done" /\ cr.fetches = 2
           /\ OwnDecision(c) = DBool(TRUE)
           /\ config.retry.onNetworkError = Undef /\ config.retry.onParsingError = Undef
           /\ cr.outcomes[1].kind = "NetworkFailure" /\ cr.outcomes[1].willRetryNext
           /\ cr.outcomes[2].kind = "ParseFailure" /\ ~cr.outcomes[2].willRetryNext

\* the decision of a wrapper was used where that of the configuration
\* differs
C32_WitnessWrapper ==
    \E c \in Calls :
        LET cr == calls[c]
        IN /\ cr.pc = "done"
           /\ opts[c].retry.form = "wrapper"
           /\ cr.outcomes[1].kind = "NetworkFailure"
           /\ cr.outcomes[1].decision = OwnDecision(c)
           /\ config.retry.onNetworkError # OwnDecision(c)

\* the flag once of call c: that of the map of the request when it is
\* defined, else that of the map of the configuration, else false
OnceOf(c) ==
    CASE opts[c].on.once # "undef" -> opts[c].on.once = "true"
      [] config.on.once # "undef" -> config.on.once = "true"
      [] OTHER -> FALSE

\* C33: the flag once of a call is that of the map of the request when it
\* is defined, else that of the map of the configuration, else false, and
\* this one value governs every handler invoked in the call, whichever
\* map it was resolved from: with the flag a handler is invoked on the
\* last attempt only, without it on every attempt.
C33_OneOnceForTheCall ==
    \A c \in Calls :
        \A i \in DOMAIN calls[c].outcomes :
            LET o == calls[c].outcomes[i]
            IN (o.resolved # NoHandler /\ o.kind # "Success") =>
                  (o.fired = (IF OnceOf(c) THEN ~o.willRetryNext ELSE TRUE))

\* the map of the request says once: false and that of the configuration
\* once: true; a handler of the configuration fired on an attempt that
\* was retried
C33_Witness ==
    \E c \in Calls :
        LET cr == calls[c]
        IN /\ cr.pc = "done" /\ cr.fetches = 2
           /\ opts[c].on.once = "false" /\ config.on.once = "true"
           /\ cr.outcomes[1].resolved.map = "global"
           /\ cr.outcomes[1].willRetryNext /\ cr.outcomes[1].fired

\* the flag of the configuration held back a handler of the request on
\* the attempt that was retried, and let it fire on the last
C33_WitnessGlobalFlag ==
    \E c \in Calls :
        LET cr == calls[c]
        IN /\ cr.pc = "done" /\ cr.fetches = 2
           /\ opts[c].on.once = "undef" /\ config.on.once = "true"
           /\ cr.outcomes[1].resolved.map = "local"
           /\ cr.outcomes[1].willRetryNext /\ ~cr.outcomes[1].fired
           /\ cr.outcomes[2].resolved.map = "local" /\ cr.outcomes[2].fired

\* call c has begun on a client configured with a fixed token, with no
\* token and no authorization header of its own or of the configuration
PlainRequest(c) ==
    /\ Started(calls[c])
    /\ config.token.kind = "string"
    /\ opts[c].token = NoToken
    /\ MergedValue(c, "authorization") = ""

\* C34: for a request with no token and no authorization header of its
\* own, on a client configured with a fixed token, the bearer value sent is
\* what token.get() returns when the request begins, after any sequence of
\* token.set and token.clear; after token.clear() the request is sent
\* without an authorization header.
C34_BearerIsCachedToken ==
    \A c \in Calls :
        PlainRequest(c) =>
           ValueOf(calls[c].baseHeaders, "authorization") =
              (IF calls[c].tokenAt.def /\ calls[c].tokenAt.v # ""
               THEN "Bearer " \o calls[c].tokenAt.v
               ELSE "")

\* the same for the requests that begin while a token is cached
C34_BearerOfCachedToken ==
    \A c \in Calls :
        (PlainRequest(c) /\ calls[c].tokenAt.def) =>
           ValueOf(calls[c].baseHeaders, "authorization") = "Bearer " \o calls[c].tokenAt.v

\* a request that began after token.clear() was sent with the token of
\* the configuration
C34_ClearedTokenSent ==
    \E c \in Calls :
        /\ PlainRequest(c)
        /\ calls[c].tokenAt = NoString
        /\ config.token = TokenString("A")
        /\ calls[c].sent # <<>>
        /\ calls[c].sent[1].headers["authorization"] = "Bearer A"

\* parseWithReader has read the body to its end
ReadToEnd == ReadEnded /\ reader.ended

\* what the read at once makes of the bytes that were read in chunks
AtOnce ==
    fallbackParse(IF Size(reader.chunks) = 0 THEN "empty" ELSE reader.text,
                  reader.parseAs)

\* C35: for every parse target but the raw response and the raw stream
\* (text, JSON, blob, array buffer, form data) and every body, the read in
\* chunks gives a value of the representation and the content that the read
\* at once gives for the same bytes, undefined for an empty body with the
\* target JSON included.
C35_ChunkedReadIsReadAtOnce ==
    (ReadToEnd /\ ~RawTarget) =>
        /\ reader.result = AtOnce
        /\ reader.size = Size(reader.chunks)
        /\ reader.pc = (IF AtOnce = "throws" THEN "threw" ELSE "returned")

\* the same for the targets other than form data
C35_ChunkedReadButFormData ==
    reader.parseAs # "formData" => C35_ChunkedReadIsReadAtOnce

\* form data was asked for and the read in chunks returned a text
C35_FormDataReadAsText ==
    /\ ReadToEnd
    /\ reader.parseAs = "formData"
    /\ reader.pc = "returned"
    /\ reader.result = "text"
    /\ Size(reader.chunks) > 0

\* the time since startedAt at which the i-th attempt of a call began
ElapsedAtTop(cr, i) == cr.topAt[i] - cr.startedAt

\* C36: when an overall time budget is configured, no transport invocation
\* of a retry begins when the time since startedAt has reached or passed
\* the budget, the duration of the failed attempt and of the delay between
\* the attempts counted.
C36_NoRetryBeyondBudget ==
    \A c \in Calls :
        LET cr == calls[c]
        IN cr.maxOverallTime.def =>
              \A i \in 2..Len(cr.topAt) : ElapsedAtTop(cr, i) < cr.maxOverallTime.v

\* what holds instead: a retry begins only when the time since startedAt
\* was under the budget as the attempt before it began
C36_BudgetOfTheAttemptBefore ==
    \A c \in Calls :
        LET cr == calls[c]
        IN (cr.maxOverallTime.def /\ cr.maxOverallTime.v > 0) =>
              \A i \in 2..Len(cr.topAt) : ElapsedAtTop(cr, i - 1) < cr.maxOverallTime.v

\* with a budget of 1 a retry was sent at time 1, after an attempt that
\* took that long
C36_RetryBeyondBudget ==
    \E c \in Calls :
        LET cr == calls[c]
        IN /\ cr.maxOverallTime = Some(1)
           /\ cr.fetches = 2
           /\ ElapsedAtTop(cr, 1) = 0
           /\ cr.outcomes[1].at - cr.startedAt = 1
           /\ ElapsedAtTop(cr, 2) >= 1

\* the call has ended as Success or as Failed
Ended(cr) == Phase(cr) \in {"Success", "Failed"}

\* C37: every call ends as Success or as Failed, for every policy and
\* every sequence of outcomes, provided each transport invocation, read of
\* a body, handler and sleep itself ends: the loop of attempts cannot run
\* for ever (nor does any call reach the largest number of transport
\* invocations modelled and stop there).
C37_EveryCallEnds ==
    /\ [](\A c \in Calls : calls[c].pc = "top" => calls[c].fetches < MaxFetches)
    /\ \A c \in Calls : (calls[c].pc = "init") ~> Ended(calls[c])

\* a call has ended after as many retries as its policy grants, each
\* attempt having failed
C37_Witness ==
    \E c \in Calls :
        LET cr == calls[c]
        IN /\ Ended(cr) /\ Phase(cr) = "Failed"
           /\ cr.fetches = MaxAttempts + 1
           /\ cr.outcomes[1].decision = DAttempts(MaxAttempts)

\* a call whose policy asks for retries without end has ended after one
\* attempt
C37_WitnessInfinity ==
    \E c \in Calls :
        LET cr == calls[c]
        IN /\ Ended(cr) /\ Phase(cr) = "Failed"
           /\ cr.fetches = 1
           /\ cr.outcomes[1].decision = DForever

=============================================================================
